---- MODULE Spec2Model ----
(***************************************************************************)
(* A model of the FinWell analysis-and-decision pipeline: the indicator    *)
(* engine (tools/technical_analysis.py), the fundamental scorer and the    *)
(* analysis stage (agents/analysis_agent.py), the risk engine and the      *)
(* recommendation synthesizer (agents/risk_agent.py) and the orchestrator  *)
(* (core/orchestrator.py).                                                 *)
(*                                                                         *)
(* Python floats are IEEE-754 binary64 numbers.  They are modelled bit for *)
(* bit: a finite float is sign * m * 2^e with m a 53-bit significand held  *)
(* as a little-endian sequence of 15-bit limbs, and every operation rounds *)
(* to nearest, ties to even.  Exponent range limits (overflow, subnormals) *)
(* are never approached by the quantities of this program and are left     *)
(* out.                                                                    *)
(***************************************************************************)
EXTENDS Integers, Sequences, FiniteSets, TLC

\* ------------------------------------------------------------------------
\* Natural numbers of arbitrary size: little-endian sequences of limbs.
\* ------------------------------------------------------------------------
LimbBits == 15
LimbBase == 2^15
MantBits == 53

Max2(a, b) == IF a >= b THEN a ELSE b
Min2(a, b) == IF a <= b THEN a ELSE b

RECURSIVE BigStrip(_)
BigStrip(a) ==
    IF Len(a) > 0 /\ a[Len(a)] = 0 THEN BigStrip(SubSeq(a, 1, Len(a) - 1)) ELSE a

RECURSIVE SmallBitLen(_)
SmallBitLen(x) == IF x = 0 THEN 0 ELSE 1 + SmallBitLen(x \div 2)

BigBitLen(a) == IF Len(a) = 0 THEN 0 ELSE LimbBits * (Len(a) - 1) + SmallBitLen(a[Len(a)])

BigLimb(a, i) == IF i >= 1 /\ i <= Len(a) THEN a[i] ELSE 0

RECURSIVE BigFromNat(_)
BigFromNat(n) == IF n = 0 THEN <<>> ELSE <<n % LimbBase>> \o BigFromNat(n \div LimbBase)

RECURSIVE BigCmpFrom(_, _, _)
BigCmpFrom(a, b, i) ==
    IF i = 0 THEN 0
    ELSE IF BigLimb(a, i) > BigLimb(b, i) THEN 1
    ELSE IF BigLimb(a, i) < BigLimb(b, i) THEN -1
    ELSE BigCmpFrom(a, b, i - 1)

BigCmp(a, b) == BigCmpFrom(a, b, Max2(Len(a), Len(b)))

RECURSIVE BigAddFrom(_, _, _, _)
BigAddFrom(a, b, i, c) ==
    IF i > Len(a) /\ i > Len(b)
    THEN (IF c = 0 THEN <<>> ELSE <<c>>)
    ELSE LET t == BigLimb(a, i) + BigLimb(b, i) + c
         IN  <<t % LimbBase>> \o BigAddFrom(a, b, i + 1, t \div LimbBase)

BigAdd(a, b) == BigAddFrom(a, b, 1, 0)

\* a - b for a >= b
RECURSIVE BigSubFrom(_, _, _, _)
BigSubFrom(a, b, i, br) ==
    IF i > Len(a) THEN <<>>
    ELSE LET t == a[i] - BigLimb(b, i) - br
         IN  IF t < 0 THEN <<t + LimbBase>> \o BigSubFrom(a, b, i + 1, 1)
                      ELSE <<t>> \o BigSubFrom(a, b, i + 1, 0)

BigSub(a, b) == BigStrip(BigSubFrom(a, b, 1, 0))

\* a * d for one limb d
RECURSIVE BigMulLimbFrom(_, _, _, _)
BigMulLimbFrom(a, d, i, c) ==
    IF i > Len(a)
    THEN (IF c = 0 THEN <<>> ELSE <<c>>)
    ELSE LET t == a[i] * d + c
         IN  <<t % LimbBase>> \o BigMulLimbFrom(a, d, i + 1, t \div LimbBase)

BigZeros(n) == [i \in 1..n |-> 0]

RECURSIVE BigMulFrom(_, _, _)
BigMulFrom(a, b, j) ==
    IF j > Len(b) THEN <<>>
    ELSE BigAdd(BigZeros(j - 1) \o BigMulLimbFrom(a, b[j], 1, 0), BigMulFrom(a, b, j + 1))

BigMul(a, b) == BigStrip(BigMulFrom(a, b, 1))

\* a * 2^k
BigShl(a, k) ==
    IF Len(a) = 0 THEN <<>>
    ELSE LET q == k \div LimbBits
             r == k % LimbBits
         IN  BigZeros(q) \o
             BigStrip([i \in 1..(Len(a) + 1) |->
                 ((BigLimb(a, i) * 2^r) % LimbBase) + (BigLimb(a, i - 1) \div 2^(LimbBits - r))])

\* a \div 2^k
BigShr(a, k) ==
    LET q == k \div LimbBits
        r == k % LimbBits
        n == Len(a) - q
    IN  IF n <= 0 THEN <<>>
        ELSE BigStrip([i \in 1..n |->
                 (a[i + q] \div 2^r) + ((BigLimb(a, i + q + 1) % 2^r) * 2^(LimbBits - r))])

\* bit i (from 0) of a
BigBit(a, i) == (BigLimb(a, (i \div LimbBits) + 1) \div 2^(i % LimbBits)) % 2

\* a % 2^k # 0
BigLowNonzero(a, k) ==
    LET q == k \div LimbBits
        r == k % LimbBits
    IN  \/ \E i \in 1..Min2(q, Len(a)) : a[i] # 0
        \/ BigLimb(a, q + 1) % 2^r # 0

\* ------------------------------------------------------------------------
\* binary64
\* ------------------------------------------------------------------------
FZero == [k |-> "num", s |-> 0, m |-> <<>>, e |-> 0]
FNaN  == [k |-> "nan", s |-> 0, m |-> <<>>, e |-> 0]
FInf(sgn) == [k |-> "inf", s |-> sgn, m |-> <<>>, e |-> 0]

IsZero(x) == x.k = "num" /\ x.m = <<>>

\* sgn * M * 2^e (plus a little more when sticky), rounded to nearest even:
\* a significand M of L > MantBits bits loses its low d = L - MantBits bits,
\* g is the highest of them and rest says whether anything lies below g
FRoundPack(sgn, q2, e) ==
    IF BigBitLen(q2) > MantBits
    THEN [k |-> "num", s |-> sgn, m |-> BigShr(q2, 1), e |-> e + 1]
    ELSE [k |-> "num", s |-> sgn, m |-> q2, e |-> e]

FRoundUp(sgn, q, e, g, rest) ==
    FRoundPack(sgn, IF g = 1 /\ (rest \/ BigBit(q, 0) = 1) THEN BigAdd(q, <<1>>) ELSE q, e)

FRoundCut(sgn, M, e, sticky, d) ==
    FRoundUp(sgn, BigShr(M, d), e + d, BigBit(M, d - 1), BigLowNonzero(M, d - 1) \/ sticky)

FRoundLen(sgn, M, e, sticky, L) ==
    IF L <= MantBits
    THEN [k |-> "num", s |-> sgn, m |-> BigShl(M, MantBits - L), e |-> e - (MantBits - L)]
    ELSE FRoundCut(sgn, M, e, sticky, L - MantBits)

FRound(sgn, M, e, sticky) ==
    IF M = <<>> THEN FZero ELSE FRoundLen(sgn, M, e, sticky, BigBitLen(M))

FromInt(n) == IF n >= 0 THEN FRound(0, BigFromNat(n), 0, FALSE)
                        ELSE FRound(1, BigFromNat(-n), 0, FALSE)

FNeg(x) == IF IsZero(x) \/ x.k = "nan" THEN x ELSE [x EXCEPT !.s = 1 - x.s]
FAbs(x) == [x EXCEPT !.s = 0]

\* comparison of magnitudes of finite numbers
FCmpMag(x, y) ==
    IF IsZero(x) THEN (IF IsZero(y) THEN 0 ELSE -1)
    ELSE IF IsZero(y) THEN 1
    ELSE IF x.e > y.e THEN 1
    ELSE IF x.e < y.e THEN -1
    ELSE BigCmp(x.m, y.m)

\* -1, 0, 1 for finite x, y
FCmp(x, y) ==
    IF x.s = 0 /\ y.s = 0 THEN FCmpMag(x, y)
    ELSE IF x.s = 1 /\ y.s = 1 THEN FCmpMag(y, x)
    ELSE IF x.s = 0 THEN (IF IsZero(x) /\ IsZero(y) THEN 0 ELSE 1)
    ELSE -1

FLt(x, y) == x.k = "num" /\ y.k = "num" /\ FCmp(x, y) < 0
FLe(x, y) == x.k = "num" /\ y.k = "num" /\ FCmp(x, y) <= 0
FGt(x, y) == FLt(y, x)
FGe(x, y) == FLe(y, x)
FEq(x, y) == x.k = "num" /\ y.k = "num" /\ FCmp(x, y) = 0

\* sum of two finite numbers: mx and my are their significands at the
\* common exponent e
FAddAligned(x, y, e, mx, my) ==
    IF x.s = y.s THEN FRound(x.s, BigAdd(mx, my), e, FALSE)
    ELSE IF BigCmp(mx, my) >= 0 THEN FRound(x.s, BigSub(mx, my), e, FALSE)
    ELSE FRound(y.s, BigSub(my, mx), e, FALSE)

FAddAt(x, y, e) == FAddAligned(x, y, e, BigShl(x.m, x.e - e), BigShl(y.m, y.e - e))

FAddNum(x, y) ==
    IF IsZero(x) THEN y
    ELSE IF IsZero(y) THEN x
    ELSE IF x.e - y.e > 2 * MantBits THEN x
    ELSE IF y.e - x.e > 2 * MantBits THEN y
    ELSE FAddAt(x, y, Min2(x.e, y.e))

FAdd(x, y) ==
    IF x.k = "nan" \/ y.k = "nan" THEN FNaN
    ELSE IF x.k = "inf" THEN (IF y.k = "inf" /\ y.s # x.s THEN FNaN ELSE x)
    ELSE IF y.k = "inf" THEN y
    ELSE FAddNum(x, y)

FSub(x, y) == FAdd(x, FNeg(y))

FMul(x, y) ==
    IF x.k = "nan" \/ y.k = "nan" THEN FNaN
    ELSE IF x.k = "inf" \/ y.k = "inf"
         THEN (IF IsZero(x) \/ IsZero(y) THEN FNaN ELSE FInf((x.s + y.s) % 2))
    ELSE IF IsZero(x) \/ IsZero(y) THEN FZero
    ELSE FRound((x.s + y.s) % 2, BigMul(x.m, y.m), x.e + y.e, FALSE)

\* Long division in base 2^15 (Knuth's algorithm D).  den is normalised (its
\* top limb has its top bit set), rem < den; the limbs num[i], num[i-1], ..
\* are brought down one at a time.  Yields <<quotient, remainder>>.
RECURSIVE BigDivCorrect(_, _, _, _)
BigDivCorrect(r, den, qh, p) ==
    IF BigCmp(p, r) > 0 THEN BigDivCorrect(r, den, qh - 1, BigSub(p, den))
    ELSE <<qh, BigSub(r, p)>>

\* the quotient digit for r: the estimate from the two top limbs, corrected
BigDivDigit(r, den) ==
    Min2((BigLimb(r, Len(den) + 1) * LimbBase + BigLimb(r, Len(den))) \div den[Len(den)],
         LimbBase - 1)

BigDivTry(r, den, qh) ==
    BigDivCorrect(r, den, qh, BigStrip(BigMulLimbFrom(den, qh, 1, 0)))

RECURSIVE BigDivFrom(_, _, _, _, _)
BigDivNext(num, den, i, quo, step) ==
    IF Len(step[2]) >= 0 THEN BigDivFrom(num, den, i - 1, step[2], <<step[1]>> \o quo)
    ELSE <<quo, step[2]>>

BigDivBring(num, den, i, quo, r) ==
    BigDivNext(num, den, i, quo, BigDivTry(r, den, BigDivDigit(r, den)))

BigDivFrom(num, den, i, rem, quo) ==
    IF i = 0 THEN <<quo, rem>>
    ELSE BigDivBring(num, den, i, quo, BigStrip(<<num[i]>> \o rem))

BigDivPack(qr) == <<qr[1], qr[2] # <<>>>>

BigDivNorm(n2, d2) == BigDivPack(BigDivFrom(n2, d2, Len(n2), <<>>, <<>>))

BigDivShifted(num, den, sh) == BigDivNorm(BigShl(num, sh), BigShl(den, sh))

\* <<num \div den, num % den # 0>> for den # 0
BigDiv(num, den) == BigDivShifted(num, den, LimbBits * Len(den) - BigBitLen(den))

\* quotient of two finite nonzero numbers
FDivPack(x, y, qr) ==
    FRound((x.s + y.s) % 2, BigStrip(qr[1]), x.e - y.e - (MantBits + 2), qr[2])

FDivNum(x, y) == FDivPack(x, y, BigDiv(BigShl(x.m, MantBits + 2), y.m))

\* IEEE division (numpy and pandas arrays; a Python float divisor is never
\* zero where the program divides scalars)
FDiv(x, y) ==
    IF x.k = "nan" \/ y.k = "nan" THEN FNaN
    ELSE IF x.k = "inf" THEN (IF y.k = "inf" THEN FNaN ELSE FInf((x.s + y.s) % 2))
    ELSE IF y.k = "inf" THEN FZero
    ELSE IF IsZero(y) THEN (IF IsZero(x) THEN FNaN ELSE FInf(x.s))
    ELSE IF IsZero(x) THEN FZero
    ELSE FDivNum(x, y)

\* floor of the square root, by Newton's iteration from a power of two above it
RECURSIVE BigSqrtFrom(_, _)
BigSqrtStep(N, x, y) == IF BigCmp(y, x) < 0 THEN BigSqrtFrom(N, y) ELSE x

BigSqrtFrom(N, x) == BigSqrtStep(N, x, BigShr(BigAdd(x, BigStrip(BigDiv(N, x)[1])), 1))

BigSqrt(N) ==
    IF Len(N) = 0 THEN <<>>
    ELSE BigSqrtFrom(N, BigShl(<<1>>, (BigBitLen(N) + 1) \div 2))

\* sqrt, correctly rounded: the significand is scaled to 2 * MantBits + 4 or
\* + 5 bits so that its exponent is even, and the root rounded once
FSqrtRound(e, N, r) == FRound(0, r, e, BigCmp(BigMul(r, r), N) # 0)

FSqrtScaled(e, N) == FSqrtRound(e, N, BigSqrt(N))

FSqrtShifted(x, sh) == FSqrtScaled((x.e - sh) \div 2, BigShl(x.m, sh))

FSqrt(x) ==
    IF x.k = "nan" THEN FNaN
    ELSE IF IsZero(x) THEN x
    ELSE IF x.s = 1 THEN FNaN
    ELSE IF x.k = "inf" THEN x
    ELSE FSqrtShifted(x, MantBits + 4 + ((x.e + MantBits) % 2))

\* the float nearest to the decimal literal n / 10^d
RECURSIVE Pow10(_)
Pow10(d) == IF d = 0 THEN 1 ELSE 10 * Pow10(d - 1)
FLit(n, d) == FDiv(FromInt(n), FromInt(Pow10(d)))

F0   == FromInt(0)
F1   == FromInt(1)
F100 == FromInt(100)
F90   == FromInt(90)
F0_02 == FLit(2, 2)
F0_05 == FLit(5, 2)
F0_32 == FLit(32, 2)
F0_15 == FLit(15, 2)
F1_1  == FLit(11, 1)
F0_1  == FLit(1, 1)
F0_16 == FLit(16, 2)
F0_2  == FLit(2, 1)
F0_3  == FLit(3, 1)
F0_4  == FLit(4, 1)
F0_5  == FLit(5, 1)
F0_6  == FLit(6, 1)
F0_7  == FLit(7, 1)
F0_8  == FLit(8, 1)
F10   == FromInt(10)
F1_5  == FLit(15, 1)
F2    == FromInt(2)
F20   == FromInt(20)
F25   == FromInt(25)
F30   == FromInt(30)
F35   == FromInt(35)
F40   == FromInt(40)
F50   == FromInt(50)
F60   == FromInt(60)
F65   == FromInt(65)
F70   == FromInt(70)
F75   == FromInt(75)
F80   == FromInt(80)

FMax(x, y) == IF FGt(y, x) THEN y ELSE x   \* Python max(x, y): y only when y > x
FMin(x, y) == IF FLt(y, x) THEN y ELSE x   \* Python min(x, y): y only when y < x

\* acc + xs[i] + xs[i+1] + ..., left to right, each sum rounded
RECURSIVE FSumFrom(_, _, _)
FSumStep(xs, i, a) == IF a.k = a.k THEN FSumFrom(xs, i + 1, a) ELSE a

FSumFrom(xs, i, acc) == IF i > Len(xs) THEN acc ELSE FSumStep(xs, i, FAdd(acc, xs[i]))

\* The builtin sum() of a sequence of floats.  Up to CPython 3.11 it adds left
\* to right; from 3.12 on it carries Neumaier's compensation term c and adds
\* it at the end.  sumImpl says which interpreter runs the program.
SumImpls == {"plain", "neumaier"}

RECURSIVE NeumaierFrom(_, _, _, _)
NeumaierNext(xs, i, t, c2) == IF t.k = c2.k THEN NeumaierFrom(xs, i + 1, t, c2) ELSE t

NeumaierStep(xs, i, f, c, x, t) ==
    NeumaierNext(xs, i, t, IF FGe(FAbs(f), FAbs(x))
                           THEN FAdd(c, FAdd(FSub(f, t), x))
                           ELSE FAdd(c, FAdd(FSub(x, t), f)))

NeumaierFrom(xs, i, f, c) ==
    IF i > Len(xs)
    THEN (IF ~IsZero(c) /\ c.k = "num" THEN FAdd(f, c) ELSE f)
    ELSE NeumaierStep(xs, i, f, c, xs[i], FAdd(f, xs[i]))

PySum(xs, impl) ==
    IF impl = "plain" THEN FSumFrom(xs, 1, F0) ELSE NeumaierFrom(xs, 1, F0, F0)

\* ------------------------------------------------------------------------
\* agents/risk_agent.py: the recommendation synthesizer
\* ------------------------------------------------------------------------
BuyActions  == {"STRONG_BUY", "BUY"}
SellActions == {"STRONG_SELL", "SELL"}
ActionNames == {"STRONG_BUY", "BUY", "HOLD", "SELL", "STRONG_SELL"}

\* recommendations: the dict as the sequence of its items [symbol, rec], in
\* insertion order
AllocationResult(buys, allocations, invested) ==
    [stock_allocations |-> [i \in 1..Len(buys) |->
                               [symbol |-> buys[i].symbol, pct |-> allocations[i]]],
     cash_allocation   |-> FMax(F0, FSub(F100, invested)),
     total_invested    |-> invested]

AllocationOf(buys, allocations, impl) ==
    AllocationResult(buys, allocations, PySum(allocations, impl))

\* total_allocation = sum(rec["position_size"] for ...), a plain sum
AllocationFrom(buys, sizes, total_allocation, impl) ==
    AllocationOf(buys,
                 IF FGt(total_allocation, F100)
                 THEN [i \in 1..Len(buys) |-> FMul(FDiv(sizes[i], total_allocation), F100)]
                 ELSE sizes,
                 impl)

AllocationSizes(buys, sizes, impl) == AllocationFrom(buys, sizes, FSumFrom(sizes, 1, F0), impl)

AllocationBuys(buys, impl) ==
    AllocationSizes(buys, [i \in 1..Len(buys) |-> buys[i].rec.position_size], impl)

GeneratePortfolioAllocation(recommendations, impl) ==
    AllocationBuys(SelectSeq(recommendations, LAMBDA r : r.rec.recommendation \in BuyActions),
                   impl)

\* ------------------------------------------------------------------------
\* Values of the provider's company-info fields.  A field holds None, a
\* number, a NaN or a non-numeric string (the provider reports an unbounded
\* ratio as the text "Infinity").  Numbers are decimal literals with two
\* places, kept as hundredths: comparing two such literals as floats orders
\* them as their hundredths are ordered.
\* ------------------------------------------------------------------------
None   == [t |-> "None", v |-> 0]
NaN    == [t |-> "nan",  v |-> 0]
Str    == [t |-> "str",  v |-> 0]
Num(h) == [t |-> "num",  v |-> h]

\* bool(x): None and zero are false, everything else (a NaN too) is true
PyTruthy(x) == x.t \in {"nan", "str"} \/ (x.t = "num" /\ x.v # 0)
\* x < k, x > k, x <= k, x >= k against a number k (hundredths): false for a
\* NaN; a str operand raises TypeError, which PyComparable tells apart
PyComparable(x) == x.t # "str"
PyLt(x, k) == x.t = "num" /\ x.v < k
PyGt(x, k) == x.t = "num" /\ x.v > k
PyLe(x, k) == x.t = "num" /\ x.v <= k
PyGe(x, k) == x.t = "num" /\ x.v >= k

Raised == [raised |-> TRUE]
Returned(v) == [raised |-> FALSE, value |-> v]

\* ------------------------------------------------------------------------
\* AnalysisAgent.calculate_fundamental_score
\* ------------------------------------------------------------------------
PeDelta_NoPenalty(pe_ratio) ==
    IF ~PyTruthy(pe_ratio) THEN 0
    ELSE IF PyGe(pe_ratio, 1000) /\ PyLe(pe_ratio, 2000) THEN 10
    ELSE 0

PeDelta(pe_ratio) ==
    IF ~PyTruthy(pe_ratio) THEN 0
    ELSE IF PyGe(pe_ratio, 1000) /\ PyLe(pe_ratio, 2000) THEN 10
    ELSE IF PyLt(pe_ratio, 1000) \/ PyGt(pe_ratio, 3000) THEN -10
    ELSE 0

\* "if x and x > hi: +up / elif x and x < lo: -down"; the roe, margin and
\* current-ratio rules have this shape, debt/equity the mirrored one
RuleDelta(x, above, up, below, down) ==
    IF PyTruthy(x) /\ PyGt(x, above) THEN up
    ELSE IF PyTruthy(x) /\ PyLt(x, below) THEN down
    ELSE 0

RawFundamentalScore(analysis) ==
    50 + PeDelta(analysis.valuation_metrics.pe_ratio)
       + RuleDelta(analysis.profitability_metrics.return_on_equity, 15, 15, 5, -15)
       + RuleDelta(analysis.profitability_metrics.profit_margin, 10, 10, 0, -20)
       + (IF PyTruthy(analysis.financial_health.debt_to_equity)
             /\ PyLt(analysis.financial_health.debt_to_equity, 50) THEN 10
          ELSE IF PyTruthy(analysis.financial_health.debt_to_equity)
             /\ PyGt(analysis.financial_health.debt_to_equity, 200) THEN -15
          ELSE 0)
       + RuleDelta(analysis.financial_health.current_ratio, 150, 5, 100, -10)

\* every rule compares its field once the field is true, so a str field
\* raises in whichever rule reads it
ScoreFields(analysis) ==
    {analysis.valuation_metrics.pe_ratio,
     analysis.profitability_metrics.return_on_equity,
     analysis.profitability_metrics.profit_margin,
     analysis.financial_health.debt_to_equity,
     analysis.financial_health.current_ratio}

CalculateFundamentalScore_NoClamp(analysis) ==
    IF \E x \in ScoreFields(analysis) : ~PyComparable(x) THEN Raised
    ELSE Returned(RawFundamentalScore(analysis))

CalculateFundamentalScore(analysis) ==
    IF \E x \in ScoreFields(analysis) : ~PyComparable(x) THEN Raised
    ELSE Returned(Max2(0, Min2(100, RawFundamentalScore(analysis))))

GenerateFundamentalSummary(score) ==
    IF score >= 70 THEN "Strong fundamental profile with good valuation and financial health"
    ELSE IF score >= 60 THEN "Good fundamental profile with some positive indicators"
    ELSE IF score >= 40 THEN "Mixed fundamental profile with both strengths and weaknesses"
    ELSE "Weak fundamental profile with concerning metrics"

\* the "analysis" dict perform_fundamental_analysis builds from company_info;
\* of its groups only the five fields the scorer reads are kept
FundamentalMetrics(info) ==
    [valuation_metrics     |-> [pe_ratio |-> info.trailingPE],
     profitability_metrics |-> [return_on_equity |-> info.returnOnEquity,
                                profit_margin |-> info.profitMargins],
     financial_health      |-> [debt_to_equity |-> info.debtToEquity,
                                current_ratio |-> info.currentRatio]]

\* ------------------------------------------------------------------------
\* RiskAgent: recommendation of one symbol
\* ------------------------------------------------------------------------
Signals == {"BULLISH", "BEARISH", "NEUTRAL"}

\* float literals of the risk agent
tech_weight == FLit(4, 1)
fund_weight == FLit(4, 1)
risk_weight == FLit(2, 1)

TechScore_Unscaled(technical_signal, technical_confidence) ==
    IF technical_signal = "BULLISH" THEN F80
    ELSE IF technical_signal = "BEARISH" THEN F20 ELSE F50

TechScore(technical_signal, technical_confidence) ==
    FMul((IF technical_signal = "BULLISH" THEN F80
                 ELSE IF technical_signal = "BEARISH" THEN F20 ELSE F50),
         technical_confidence)

\* tech_score * 0.4 + fundamental_score * 0.4 + (100 - risk_score) * 0.2
CombinedScore(technical_signal, technical_confidence, fundamental_score, risk_score) ==
    FAdd(FAdd(FMul(TechScore(technical_signal, technical_confidence), tech_weight),
              FMul(fundamental_score, fund_weight)),
         FMul(FSub(F100, risk_score), risk_weight))

\* the if/elif chain of generate_stock_recommendation
RecommendationTier_Swapped(combined_score) ==
    IF FGe(combined_score, F70) THEN [action |-> "BUY", time_horizon |-> "1-3 months"]
    ELSE IF FGe(combined_score, F60) THEN [action |-> "STRONG_BUY", time_horizon |-> "3-6 months"]
    ELSE IF FGe(combined_score, F40) THEN [action |-> "HOLD", time_horizon |-> "Monitor"]
    ELSE IF FGe(combined_score, F30) THEN [action |-> "SELL", time_horizon |-> "1-2 weeks"]
    ELSE [action |-> "STRONG_SELL", time_horizon |-> "Immediate"]

RecommendationTier(combined_score) ==
    IF FGe(combined_score, F70) THEN [action |-> "STRONG_BUY", time_horizon |-> "3-6 months"]
    ELSE IF FGe(combined_score, F60) THEN [action |-> "BUY", time_horizon |-> "1-3 months"]
    ELSE IF FGe(combined_score, F40) THEN [action |-> "HOLD", time_horizon |-> "Monitor"]
    ELSE IF FGe(combined_score, F30) THEN [action |-> "SELL", time_horizon |-> "1-2 weeks"]
    ELSE [action |-> "STRONG_SELL", time_horizon |-> "Immediate"]

\* the reasoning text (formatted inputs) is left out of the returned record
RecommendationOf(tier, technical_confidence) ==
    [action       |-> tier.action,
     confidence   |-> FMin(FAdd(technical_confidence, F0_2), F1),
     time_horizon |-> tier.time_horizon]

GenerateStockRecommendation(technical_signal, technical_confidence, fundamental_score, risk_score) ==
    RecommendationOf(RecommendationTier(
                         CombinedScore(technical_signal, technical_confidence,
                                       fundamental_score, risk_score)),
                     technical_confidence)

CalculatePositionSize_Unclamped(risk_score, confidence) ==
    FMul(FMul(F10, FMax(F0_2, FDiv(FSub(F100, risk_score), F100))), confidence)

CalculatePositionSize_BaseOfCap(risk_score, confidence) ==
    LET risk_multiplier == FMax(F0_2, FDiv(FSub(F100, risk_score), F100))
        position_size   == FMul(FMul(F25, risk_multiplier), confidence)
    IN  FMin(FMax(position_size, F1), F25)

\* min(max(10.0 * max(0.2, (100 - risk_score) / 100) * confidence, 1.0), 25.0)
CalculatePositionSize(risk_score, confidence) ==
    LET risk_multiplier == FMax(F0_2, FDiv(FSub(F100, risk_score), F100))
        position_size   == FMul(FMul(F10, risk_multiplier), confidence)
    IN  FMin(FMax(position_size, F1), F25)

\* None where a float is expected
PyNone == [k |-> "nan", s |-> 0, m |-> <<>>, e |-> 0]

\* round(x, 2) of a finite float: the hundredths nearest to the exact value
\* of x, a tie going to the even one, and of them the nearest float
RoundedHundredths(sgn, hundredths, up) ==
    FDiv(FRound(sgn, IF up THEN BigAdd(hundredths, <<1>>) ELSE hundredths, 0, FALSE), F100)

RoundHundredths(sgn, scaled, d) ==
    RoundedHundredths(sgn, BigShr(scaled, d),
                      BigBit(scaled, d - 1) = 1
                          /\ (BigLowNonzero(scaled, d - 1) \/ BigBit(scaled, d) = 1))

PyRound2(x) ==
    IF x.k # "num" \/ IsZero(x) \/ x.e >= 0 THEN x
    ELSE RoundHundredths(x.s, BigStrip(BigMulLimbFrom(x.m, 100, 1, 0)), 0 - x.e)

\* 0.05 + (risk_score / 100) * 0.15
StopLossPct(risk_score) == FAdd(F0_05, FMul(FDiv(risk_score, F100), F0_15))

TargetPct(signal, risk_score) ==
    IF signal = "BULLISH" THEN FAdd(F0_15, FMul(FSub(F1, FDiv(risk_score, F100)), F0_15))
    ELSE IF signal = "BEARISH" THEN FNeg(F0_1)
    ELSE F0_05

\* "not current_price" holds for None and for 0
CalculatePriceTargets(current_price, signal, risk_score) ==
    IF current_price.k = "nan" \/ IsZero(current_price)
    THEN [stop_loss |-> PyNone, target_price |-> PyNone]
    ELSE [stop_loss    |-> PyRound2(FMul(current_price, FSub(F1, StopLossPct(risk_score)))),
          target_price |-> PyRound2(FMul(current_price,
                                         FAdd(F1, TargetPct(signal, risk_score))))]

ClassifyRiskLevel(risk_score) ==
    IF FLt(risk_score, F30) THEN "LOW"
    ELSE IF FLt(risk_score, F60) THEN "MODERATE"
    ELSE IF FLt(risk_score, F80) THEN "HIGH"
    ELSE "VERY_HIGH"

\* ------------------------------------------------------------------------
\* RiskAgent.calculate_risk_metrics: the metrics measured on a close series.
\* numpy's add.reduce adds fewer than eight items left to right, so the
\* series stay shorter than that.
\* ------------------------------------------------------------------------
NpSum(xs)  == FSumFrom(xs, 1, F0)
NpMean(xs) == FDiv(NpSum(xs), FromInt(Len(xs)))
\* np.std: the mean, the squared deviations, their mean, the root
NpStdFrom(xs, arrmean) ==
    FSqrt(FDiv(NpSum([i \in 1..Len(xs) |-> FMul(FSub(xs[i], arrmean), FSub(xs[i], arrmean))]),
               FromInt(Len(xs))))

NpStd(xs) == NpStdFrom(xs, NpMean(xs))

Sqrt252 == FSqrt(FromInt(252))
DailyRiskFree == FDiv(FLit(2, 2), FromInt(252))

\* np.diff(prices) / prices[:-1]
Returns(prices) ==
    [i \in 1..(Len(prices) - 1) |-> FDiv(FSub(prices[i + 1], prices[i]), prices[i])]

\* np.maximum.accumulate(prices)[i]
RECURSIVE PeakAt(_, _)
PeakStep(peak, price) == IF FGt(price, peak) THEN price ELSE peak
PeakAt(prices, i) ==
    IF i = 1 THEN prices[1] ELSE PeakStep(PeakAt(prices, i - 1), prices[i])

RECURSIVE NpMinFrom(_, _, _)
NpMinFrom(xs, i, acc) ==
    IF i > Len(xs) THEN acc
    ELSE NpMinFrom(xs, i + 1, IF FLt(xs[i], acc) THEN xs[i] ELSE acc)

\* (prices - peak) / peak
DrawdownAt(price, peak) == FDiv(FSub(price, peak), peak)
Drawdown(prices) == [i \in 1..Len(prices) |-> DrawdownAt(prices[i], PeakAt(prices, i))]
NpMin(xs) == NpMinFrom(xs, 2, xs[1])

CalculateMaxDrawdown(prices) == NpMin(Drawdown(prices))

CalculateSharpeRatio(returns, std) ==
    IF Len(returns) = 0 \/ FEq(std, F0) THEN F0
    ELSE FMul(FDiv(FSub(NpMean(returns), DailyRiskFree), std), Sqrt252)

CalculateBeta(std) == FDiv(FMul(std, Sqrt252), F0_16)

\* std is np.std(returns), max_drawdown is calculate_max_drawdown(prices)
CalculateRiskScore_Uncapped(returns, std, max_drawdown) ==
    IF Len(returns) = 0 THEN F50
    ELSE FAdd(FMul(FMul(std, Sqrt252), F100), FMin(FMul(FAbs(max_drawdown), F100), F50))

CalculateRiskScore(returns, std, max_drawdown) ==
    IF Len(returns) = 0 THEN F50
    ELSE FAdd(FMin(FMul(FMul(std, Sqrt252), F100), F50),
              FMin(FMul(FAbs(max_drawdown), F100), F50))

\* the record of one symbol; the two value-at-risk percentiles of the
\* returns are not part of it
MetricsFrom(returns, std, mdd) ==
    [volatility   |-> [daily |-> std, annualized |-> FMul(std, Sqrt252)],
     max_drawdown |-> mdd,
     sharpe_ratio |-> CalculateSharpeRatio(returns, std),
     beta         |-> CalculateBeta(std),
     risk_score   |-> CalculateRiskScore(returns, std, mdd)]

MetricsOfReturns(prices, returns) ==
    MetricsFrom(returns, NpStd(returns), CalculateMaxDrawdown(prices))

MeasuredRiskMetrics(prices) == MetricsOfReturns(prices, Returns(prices))

\* ------------------------------------------------------------------------
\* Dicts.  A dict keyed by symbol is a function on the set of its keys; its
\* items come in the order of the request's symbol list, in which every loop
\* of the program inserts them.  A result dict is a record, and "key in d" is
\* membership in its domain.
\* ------------------------------------------------------------------------
Range(seq) == {seq[i] : i \in 1..Len(seq)}
Has(d, key) == key \in DOMAIN d
EmptyDict == [s \in {} |-> s]
\* d.get(key, {})
GetDict(d, key) == IF Has(d, key) THEN d[key] ELSE EmptyDict
Failed(msg) == [error |-> msg, status |-> "failed"]
StatusOf(d) == IF Has(d, "status") THEN d.status ELSE "None"

FetchError == [error |-> "Failed to fetch data"]
IsError(d) == Has(d, "error")

\* ------------------------------------------------------------------------
\* tools/technical_analysis.py: the indicator engine.  A float that pandas
\* reports as NaN reaches the engine's own code as None
\* (convert_to_native_type); the closes are whole numbers, so the sums of a
\* rolling window are exact.
\* ------------------------------------------------------------------------
RsiPeriod == 14
F14 == FromInt(RsiPeriod)

\* close_prices.diff()[i]: NaN on the first bar
Delta(closes, i) == IF i = 1 THEN FNaN ELSE FSub(closes[i], closes[i - 1])
\* delta.where(delta > 0, 0)[i] and (-delta.where(delta < 0, 0))[i]
GainAt(closes, i) == IF FGt(Delta(closes, i), F0) THEN Delta(closes, i) ELSE F0
LossAt(closes, i) == IF FLt(Delta(closes, i), F0) THEN FNeg(Delta(closes, i)) ELSE F0

\* series.rolling(window).mean().iloc[-1]: NaN until the series has window items
RollingMeanLast(xs, window) ==
    IF Len(xs) < window THEN FNaN
    ELSE FDiv(FSumFrom(SubSeq(xs, Len(xs) - window + 1, Len(xs)), 1, F0), FromInt(window))

AvgGain(closes) == RollingMeanLast([i \in 1..Len(closes) |-> GainAt(closes, i)], RsiPeriod)
AvgLoss(closes) == RollingMeanLast([i \in 1..Len(closes) |-> LossAt(closes, i)], RsiPeriod)

\* rsi.iloc[-1] = 100 - 100 / (1 + gain / loss), in IEEE arithmetic: a zero
\* loss gives rs = inf and 100, a zero gain as well gives NaN
RsiLast(closes) ==
    FSub(F100, FDiv(F100, FAdd(F1, FDiv(AvgGain(closes), AvgLoss(closes)))))

\* "current_rsi > 70" raises TypeError when current_rsi is None
RsiResult(current_rsi) ==
    IF current_rsi.k = "nan" THEN Raised
    ELSE Returned(
        [current_rsi    |-> current_rsi,
         signals        |-> IF FGt(current_rsi, F70) THEN <<"RSI indicates overbought condition">>
                            ELSE IF FLt(current_rsi, F30) THEN <<"RSI indicates oversold condition">>
                            ELSE <<"RSI in neutral range">>,
         interpretation |-> IF FGt(current_rsi, F70) THEN "overbought"
                            ELSE IF FLt(current_rsi, F30) THEN "oversold" ELSE "neutral"])

CalculateRsi(closes) == RsiResult(RsiLast(closes))

\* series.ewm(span=span).mean(): pandas' recurrence with adjust=True, where
\* the weight of a new observation is 1
EwmFactor(span) ==
    FSub(F1, FDiv(F1, FAdd(F1, FDiv(FromInt(span - 1), FromInt(2)))))

\* One observation x.  st = <<weighted, old_wt, out>>: the running average,
\* the weight of the observations so far and the averages put out; ow is the
\* decayed weight old_wt * factor.
EwmAverage(weighted, x, ow) ==
    IF FEq(weighted, x) THEN weighted
    ELSE FDiv(FAdd(FMul(ow, weighted), x), FAdd(ow, F1))

EwmPut(st, weighted, ow) == <<weighted, FAdd(ow, F1), Append(st[3], weighted)>>

EwmNext(st, x, ow) == EwmPut(st, EwmAverage(st[1], x, ow), ow)

EwmStep(st, x, factor) == EwmNext(st, x, FMul(st[2], factor))

\* the observations xs[lo..hi] one after the other, first to last; the range
\* is halved so that the evaluation does not nest as deep as it is long
RECURSIVE EwmFrom(_, _, _, _, _)
EwmRest(xs, lo, hi, st, factor) ==
    IF Len(st) = 3 THEN EwmFrom(xs, lo, hi, st, factor) ELSE st

EwmFrom(xs, lo, hi, st, factor) ==
    IF lo > hi THEN st
    ELSE IF lo = hi THEN EwmStep(st, xs[lo], factor)
    ELSE EwmRest(xs, (lo + hi) \div 2 + 1, hi,
                 EwmFrom(xs, lo, (lo + hi) \div 2, st, factor), factor)

EwmMean(xs, span) ==
    IF Len(xs) = 0 THEN <<>>
    ELSE EwmFrom(xs, 2, Len(xs), <<xs[1], F1, <<xs[1]>> >>, EwmFactor(span))[3]

Last(xs) == xs[Len(xs)]
\* a float the engine's code treats as false: None (NaN) or zero
Falsy(x) == x.k = "nan" \/ IsZero(x)

SmaSignals(current_price, sma_20, sma_50, sma_200) ==
    (IF ~Falsy(sma_20) /\ FGt(current_price, sma_20)
        THEN <<"Price above 20-day SMA (bullish)">>
     ELSE IF ~Falsy(sma_20) /\ FLt(current_price, sma_20)
        THEN <<"Price below 20-day SMA (bearish)">>
     ELSE <<>>)
    \o
    (IF ~Falsy(sma_50) /\ ~Falsy(sma_200)
     THEN IF FGt(sma_50, sma_200)
          THEN <<"Golden Cross: 50-day SMA above 200-day SMA (bullish)">>
          ELSE <<"Death Cross: 50-day SMA below 200-day SMA (bearish)">>
     ELSE <<>>)

MovingAveragesOf(closes, sma_20, sma_50, sma_200) ==
    [sma_20 |-> sma_20, sma_50 |-> sma_50, sma_200 |-> sma_200,
     ema_12 |-> Last(EwmMean(closes, 12)), ema_26 |-> Last(EwmMean(closes, 26)),
     signals |-> SmaSignals(Last(closes), sma_20, sma_50, sma_200)]

CalculateMovingAverages(closes) ==
    MovingAveragesOf(closes, RollingMeanLast(closes, 20), RollingMeanLast(closes, 50),
                     RollingMeanLast(closes, 200))

\* (ema_12 - ema_26)[lo..hi]
RECURSIVE MacdLineBetween(_, _, _, _)
MacdLineBetween(ema_12, ema_26, lo, hi) ==
    IF lo > hi THEN <<>>
    ELSE IF lo = hi THEN <<FSub(ema_12[lo], ema_26[lo])>>
    ELSE MacdLineBetween(ema_12, ema_26, lo, (lo + hi) \div 2)
         \o MacdLineBetween(ema_12, ema_26, (lo + hi) \div 2 + 1, hi)

MacdLine(ema_12, ema_26) == MacdLineBetween(ema_12, ema_26, 1, Len(ema_12))

\* the last values of the lines; hist and prev_hist are the last two values
\* of the histogram macd_line - signal_line
MacdOf(n, macd, signal, hist, prev_hist) ==
    [macd_line |-> macd, signal_line |-> signal, histogram |-> hist,
     signals |->
        (IF FGt(macd, signal) THEN <<"MACD above signal line (bullish)">>
         ELSE <<"MACD below signal line (bearish)">>)
        \o
        (IF n > 1
         THEN IF FGt(hist, prev_hist)
              THEN <<"MACD histogram increasing (momentum building)">>
              ELSE <<"MACD histogram decreasing (momentum weakening)">>
         ELSE <<>>)]

MacdFrom(n, macd_line, signal_line) ==
    MacdOf(n, macd_line[n], signal_line[n], FSub(macd_line[n], signal_line[n]),
           IF n > 1 THEN FSub(macd_line[n - 1], signal_line[n - 1]) ELSE FNaN)

MacdSignalLine(n, macd_line) == MacdFrom(n, macd_line, EwmMean(macd_line, 9))

CalculateMacd(closes) ==
    MacdSignalLine(Len(closes), MacdLine(EwmMean(closes, 12), EwmMean(closes, 26)))

\* series.rolling(window).std().iloc[-1], the sample deviation of the last
\* window items, computed here from the window's mean (pandas accumulates the
\* same quantity online)
SampleStd(w, mean) ==
    FSqrt(FDiv(FSumFrom([i \in 1..Len(w) |-> FMul(FSub(w[i], mean), FSub(w[i], mean))], 1, F0),
               FromInt(Len(w) - 1)))

RollingStdLast(xs, window) ==
    IF Len(xs) < window THEN FNaN
    ELSE SampleStd(SubSeq(xs, Len(xs) - window + 1, Len(xs)), RollingMeanLast(xs, window))

\* "current_upper - current_lower" raises TypeError while the bands are None
BandsResult(sma, current_upper, current_lower, current_price) ==
    IF current_upper.k = "nan" \/ current_lower.k = "nan" THEN Raised
    ELSE Returned(
        [upper_band |-> current_upper, middle_band |-> sma, lower_band |-> current_lower,
         current_price |-> current_price,
         band_position |-> IF FGt(FSub(current_upper, current_lower), F0)
                           THEN FDiv(FSub(current_price, current_lower),
                                     FSub(current_upper, current_lower))
                           ELSE F0_5,
         signals |->
            IF FGt(current_price, current_upper)
                THEN <<"Price above upper Bollinger Band (potentially overbought)">>
            ELSE IF FLt(current_price, current_lower)
                THEN <<"Price below lower Bollinger Band (potentially oversold)">>
            ELSE <<"Price within Bollinger Bands (normal range)">>])

BandsFrom(sma, std, current_price) ==
    BandsResult(sma, FAdd(sma, FMul(std, F2)), FSub(sma, FMul(std, F2)), current_price)

CalculateBollingerBands(closes) ==
    BandsFrom(RollingMeanLast(closes, 20), RollingStdLast(closes, 20), Last(closes))

RECURSIVE FMaxFrom(_, _, _)
FMaxFrom(xs, i, acc) ==
    IF i > Len(xs) THEN acc ELSE FMaxFrom(xs, i + 1, IF FGt(xs[i], acc) THEN xs[i] ELSE acc)

\* series.tail(20)
Tail20(xs) == SubSeq(xs, Max2(1, Len(xs) - 19), Len(xs))

\* the distances divide by the current price: ZeroDivisionError when it is 0
LevelsResult(recent_high, recent_low, current_price, resistance_distance, support_distance) ==
    Returned(
        [resistance_level |-> recent_high, support_level |-> recent_low,
         current_price |-> current_price,
         distance_to_resistance_pct |-> resistance_distance,
         distance_to_support_pct |-> support_distance,
         signals |->
            (IF FLt(resistance_distance, F2) THEN <<"Price near resistance level">> ELSE <<>>)
            \o
            (IF FLt(support_distance, F2) THEN <<"Price near support level">> ELSE <<>>)])

LevelsFrom(recent_high, recent_low, current_price) ==
    IF IsZero(current_price) THEN Raised
    ELSE LevelsResult(recent_high, recent_low, current_price,
                      FMul(FDiv(FSub(recent_high, current_price), current_price), F100),
                      FMul(FDiv(FSub(current_price, recent_low), current_price), F100))

FindSupportResistance(highs, lows, closes) ==
    LevelsFrom(FMaxFrom(Tail20(highs), 2, Tail20(highs)[1]),
               NpMinFrom(Tail20(lows), 2, Tail20(lows)[1]), Last(closes))

\* "avg_volume > 0" raises TypeError while the 20-bar average is None, and so
\* does "price_change > 0" on a single bar
VolumeResult(current_volume, avg_volume, volume_ratio, price_change) ==
    IF FGt(volume_ratio, F1_5) /\ price_change.k = "nan" THEN Raised
    ELSE Returned(
        [current_volume |-> current_volume, average_volume |-> avg_volume,
         volume_ratio |-> volume_ratio,
         signals |->
            IF FGt(volume_ratio, F1_5)
            THEN <<"High volume activity",
                   IF FGt(price_change, F0) THEN "High volume with price increase (bullish)"
                   ELSE "High volume with price decrease (bearish)">>
            ELSE IF FLt(volume_ratio, F0_5) THEN <<"Low volume activity">>
            ELSE <<>>])

VolumeFrom(current_volume, avg_volume, price_change) ==
    IF avg_volume.k = "nan" THEN Raised
    ELSE VolumeResult(current_volume, avg_volume,
                      IF FGt(avg_volume, F0) THEN FDiv(current_volume, avg_volume) ELSE F1,
                      price_change)

AnalyzeVolume(closes, volumes) ==
    VolumeFrom(Last(volumes), RollingMeanLast(volumes, 20),
               IF Len(closes) = 1 THEN FNaN
               ELSE FSub(FDiv(closes[Len(closes)], closes[Len(closes) - 1]), F1))

\* The signal texts in which generate_signals finds one of the words
\* "bullish", "above", "increasing", "oversold", and those in which it finds
\* one of "bearish", "below", "decreasing", "overbought".  Both Bollinger
\* texts hold a word of each list.
BullishWorded ==
    {"Price above 20-day SMA (bullish)",
     "Golden Cross: 50-day SMA above 200-day SMA (bullish)",
     "RSI indicates oversold condition",
     "MACD above signal line (bullish)",
     "MACD histogram increasing (momentum building)",
     "Price above upper Bollinger Band (potentially overbought)",
     "Price below lower Bollinger Band (potentially oversold)",
     "High volume with price increase (bullish)"}
BearishWorded ==
    {"Price below 20-day SMA (bearish)",
     "Death Cross: 50-day SMA below 200-day SMA (bearish)",
     "RSI indicates overbought condition",
     "MACD below signal line (bearish)",
     "MACD histogram decreasing (momentum weakening)",
     "Price above upper Bollinger Band (potentially overbought)",
     "Price below lower Bollinger Band (potentially oversold)",
     "High volume with price decrease (bearish)"}

\* the bullish test comes first; a text counted there is not tested again
CountBullish(signals) == Cardinality({i \in 1..Len(signals) : signals[i] \in BullishWorded})
CountBearish(signals) ==
    Cardinality({i \in 1..Len(signals) :
                    signals[i] \notin BullishWorded /\ signals[i] \in BearishWorded})

GetRecommendation_AtThreshold(signal, confidence) ==
    IF signal = "BULLISH" /\ FGe(confidence, F0_7) THEN "STRONG BUY"
    ELSE IF signal = "BULLISH" /\ FGe(confidence, F0_6) THEN "BUY"
    ELSE IF signal = "BEARISH" /\ FGe(confidence, F0_7) THEN "STRONG SELL"
    ELSE IF signal = "BEARISH" /\ FGe(confidence, F0_6) THEN "SELL"
    ELSE "HOLD"

GetRecommendation(signal, confidence) ==
    IF signal = "BULLISH" /\ FGt(confidence, F0_7) THEN "STRONG BUY"
    ELSE IF signal = "BULLISH" /\ FGt(confidence, F0_6) THEN "BUY"
    ELSE IF signal = "BEARISH" /\ FGt(confidence, F0_7) THEN "STRONG SELL"
    ELSE IF signal = "BEARISH" /\ FGt(confidence, F0_6) THEN "SELL"
    ELSE "HOLD"

OverallSignal(bullish_signals, bearish_signals) ==
    IF bullish_signals > bearish_signals THEN "BULLISH"
    ELSE IF bearish_signals > bullish_signals THEN "BEARISH"
    ELSE "NEUTRAL"

SignalConfidence_Margin(bullish_signals, bearish_signals) ==
    IF bullish_signals > bearish_signals
        THEN FMin(FDiv(FromInt(bullish_signals - bearish_signals),
                       FromInt(bullish_signals + bearish_signals)), F1)
    ELSE IF bearish_signals > bullish_signals
        THEN FMin(FDiv(FromInt(bearish_signals - bullish_signals),
                       FromInt(bullish_signals + bearish_signals)), F1)
    ELSE F0_5

SignalConfidence(bullish_signals, bearish_signals) ==
    IF bullish_signals > bearish_signals
        THEN FMin(FDiv(FromInt(bullish_signals), FromInt(bullish_signals + bearish_signals)), F1)
    ELSE IF bearish_signals > bullish_signals
        THEN FMin(FDiv(FromInt(bearish_signals), FromInt(bullish_signals + bearish_signals)), F1)
    ELSE F0_5

SignalsFrom(bullish_signals, bearish_signals, overall_signal, confidence) ==
    [overall_signal |-> overall_signal, confidence |-> confidence,
     bullish_indicators |-> bullish_signals, bearish_indicators |-> bearish_signals,
     recommendation |-> GetRecommendation(overall_signal, confidence)]

SignalsOf(bullish_signals, bearish_signals) ==
    SignalsFrom(bullish_signals, bearish_signals,
                OverallSignal(bullish_signals, bearish_signals),
                SignalConfidence(bullish_signals, bearish_signals))

\* all_signals: the signal lists of the indicators, in the order of the
\* indicators dict, one after the other
GenerateSignals(all_signals) == SignalsOf(CountBullish(all_signals), CountBearish(all_signals))

\* stock_data: what get_stock_data returned to the engine, an error or a
\* record with the columns of historical_data.  An exception of an indicator
\* ends the analysis with an error result.  The summary text is left out.
IndicatorsResult(stock_data, ma, rsi, macd, bb, sr, vol) ==
    [current_price |-> stock_data.current_price,
     technical_indicators |->
         [moving_averages |-> ma, rsi |-> rsi, macd |-> macd, bollinger_bands |-> bb,
          support_resistance |-> sr, volume_analysis |-> vol],
     trading_signals |->
         GenerateSignals(ma.signals \o rsi.signals \o macd.signals \o bb.signals
                         \o sr.signals \o vol.signals)]

IndicatorsFrom(stock_data, closes, rsi, bb, sr, vol) ==
    IF rsi.raised \/ bb.raised \/ sr.raised \/ vol.raised
    THEN [error |-> "Technical analysis failed"]
    ELSE IndicatorsResult(stock_data, CalculateMovingAverages(closes), rsi.value,
                          CalculateMacd(closes), bb.value, sr.value, vol.value)

AnalyzeColumns(stock_data, hist_data) ==
    IndicatorsFrom(stock_data, hist_data.Close,
                   CalculateRsi(hist_data.Close),
                   CalculateBollingerBands(hist_data.Close),
                   FindSupportResistance(hist_data.High, hist_data.Low, hist_data.Close),
                   AnalyzeVolume(hist_data.Close, hist_data.Volume))

AnalyzeStock(stock_data) ==
    IF IsError(stock_data) THEN stock_data
    ELSE IF DOMAIN stock_data.historical_data = {}
    THEN [error |-> "No historical data available"]
    ELSE AnalyzeColumns(stock_data, stock_data.historical_data)

\* ------------------------------------------------------------------------
\* tools/financial_data.py: get_stock_data.  answer is what the provider
\* gave: an exception, or the price history (bars with whole-number Close,
\* High, Low, Volume) and the company info.  historical_data is the dict of
\* the history's columns, empty for an empty history.  The statement tables
\* are not read by any agent and are left out.
\* ------------------------------------------------------------------------
ProviderFailure == [failed |-> TRUE]
ProviderData(hist, info) == [failed |-> FALSE, hist |-> hist, info |-> info]

ConvertDataframeToDict(df) ==
    IF Len(df) = 0 THEN EmptyDict
    ELSE [Close  |-> [i \in 1..Len(df) |-> df[i].Close],
          High   |-> [i \in 1..Len(df) |-> df[i].High],
          Low    |-> [i \in 1..Len(df) |-> df[i].Low],
          Volume |-> [i \in 1..Len(df) |-> df[i].Volume]]

GetStockData(answer) ==
    IF answer.failed THEN FetchError
    ELSE [current_price   |-> IF Len(answer.hist) = 0 THEN PyNone ELSE Last(answer.hist).Close,
          historical_data |-> ConvertDataframeToDict(answer.hist),
          company_info    |-> answer.info]

\* ------------------------------------------------------------------------
\* agents/data_agent.py.  The tools catch the provider's exceptions
\* themselves, so the three collectors always report success.
\* ------------------------------------------------------------------------
\* answers: the provider's answer for each requested symbol
CollectStockData(symbols, answers) ==
    [stocks |-> [s \in Range(symbols) |-> GetStockData(answers[s])], status |-> "success"]

\* indices: get_market_overview's dict as the sequence of its entries, each
\* with its name and a change_percent or an error; sectors likewise
CollectMarketData(indices, sectors) ==
    [market_indices |-> [shape |-> "dict", items |-> indices],
     sector_performance |-> sectors, status |-> "success"]

\* articles: the articles get_stock_news returns for a symbol, each already
\* carrying its sentiment; the provider gives every symbol and both fetches
\* of a run the same articles
Polarities(articles) == [i \in 1..Len(articles) |-> articles[i].sentiment.polarity]
SentimentLabel(polarity) ==
    IF FGt(polarity, F0_1) THEN "positive"
    ELSE IF FLt(polarity, FNeg(F0_1)) THEN "negative" ELSE "neutral"

\* all_sentiments: the polarities of the articles of all symbols
SentimentSummaryOf(symbols, articles, all_sentiments, avg, overall_polarity) ==
    [overall_sentiment |->
         [polarity |-> overall_polarity, label |-> SentimentLabel(overall_polarity),
          total_articles |-> Len(all_sentiments)],
     symbol_sentiments |->
         [s \in (IF Len(articles) = 0 THEN {} ELSE Range(symbols)) |->
             [average_polarity |-> avg, article_count |-> Len(articles),
              sentiment_label |-> SentimentLabel(avg)]]]

SentimentSummaryFrom(symbols, articles, all_sentiments, impl) ==
    SentimentSummaryOf(symbols, articles, all_sentiments,
                       FDiv(PySum(Polarities(articles), impl), FromInt(Len(articles))),
                       IF Len(all_sentiments) = 0 THEN F0
                       ELSE FDiv(PySum(all_sentiments, impl), FromInt(Len(all_sentiments))))

GetMarketSentimentSummary(symbols, articles, impl) ==
    SentimentSummaryFrom(symbols, articles,
                         IF Len(articles) = 0 THEN <<>>
                         ELSE [i \in 1..(Len(symbols) * Len(articles)) |->
                                  articles[((i - 1) % Len(articles)) + 1].sentiment.polarity],
                         impl)

CollectNewsSentiment(symbols, articles, impl) ==
    [individual_news  |-> [s \in Range(symbols) |-> articles],
     market_sentiment |-> GetMarketSentimentSummary(symbols, articles, impl),
     status |-> "success"]

\* "fair" if summary["data_quality"] == "good" else "poor", when a
\* collection failed
QualityAfter(data_quality, bad) ==
    IF bad THEN (IF data_quality = "good" THEN "fair" ELSE "poor") ELSE data_quality

GenerateDataSummary(symbols, stock_data, market_data, news_sentiment) ==
    [total_symbols |-> Len(symbols),
     data_quality |->
         QualityAfter(QualityAfter(IF StatusOf(stock_data) # "success" THEN "poor" ELSE "good",
                                   StatusOf(market_data) # "success"),
                      StatusOf(news_sentiment) # "success"),
     issues |-> (IF StatusOf(stock_data) # "success"
                 THEN <<"Stock data collection failed">> ELSE <<>>)
                \o (IF StatusOf(market_data) # "success"
                    THEN <<"Market data collection failed">> ELSE <<>>)
                \o (IF StatusOf(news_sentiment) # "success"
                    THEN <<"News sentiment collection failed">> ELSE <<>>)]

DataCollectionResult(symbols, stock_data, market_data, news_data) ==
    [symbols |-> symbols, stock_data |-> stock_data, market_data |-> market_data,
     news_sentiment |-> news_data,
     summary |-> GenerateDataSummary(symbols, stock_data, market_data, news_data)]

\* the timestamp is left out
ExecuteDataCollection(symbols, answers, indices, sectors, articles, impl) ==
    DataCollectionResult(symbols, CollectStockData(symbols, answers),
                         CollectMarketData(indices, sectors),
                         CollectNewsSentiment(symbols, articles, impl))

\* ------------------------------------------------------------------------
\* agents/analysis_agent.py
\* ------------------------------------------------------------------------
\* engine: for each symbol what analyze_stock returned, which fetches the
\* symbol's data itself and turns every exception into an error result
PerformTechnicalAnalysis(symbols, engine) ==
    [technical_analysis |-> [s \in Range(symbols) |-> engine[s]], status |-> "success"]

FundamentalsOf(analysis, score) ==
    [valuation_metrics     |-> analysis.valuation_metrics,
     profitability_metrics |-> analysis.profitability_metrics,
     financial_health      |-> analysis.financial_health,
     fundamental_score     |-> score,
     fundamental_summary   |-> GenerateFundamentalSummary(score)]

FundamentalsFrom(analysis) == FundamentalsOf(analysis, CalculateFundamentalScore(analysis).value)

SymbolFundamentals(data) ==
    IF IsError(data) THEN [error |-> data.error]
    ELSE FundamentalsFrom(FundamentalMetrics(data.company_info))

\* one try/except around the whole loop: an exception for one symbol
\* replaces the results of all of them
PerformFundamentalAnalysis(symbols, stocks) ==
    IF \E s \in DOMAIN stocks :
           ~IsError(stocks[s])
           /\ CalculateFundamentalScore(FundamentalMetrics(stocks[s].company_info)).raised
    THEN Failed("'<=' not supported between instances of 'int' and 'str'")
    ELSE [fundamental_analysis |-> [s \in DOMAIN stocks |-> SymbolFundamentals(stocks[s])],
          status |-> "success"]

\* Iterating market_indices as a dict yields its keys, the index names, and
\* "index_data.get" on a name raises AttributeError; only a list of entries
\* is walked through.  When no entry was counted positive_ratio is unbound
\* where market_sentiment reads it (UnboundLocalError).  The leading and
\* lagging sector lists are left out.
SectorTrend(change_pct) ==
    IF FGt(change_pct, F2) THEN "strong_positive"
    ELSE IF FGt(change_pct, F0) THEN "positive"
    ELSE IF FGt(change_pct, FNeg(F2)) THEN "neutral"
    ELSE "negative"

MarketTrendsOf(sector_performance, positive_ratio) ==
    [market_trend |-> IF FGt(positive_ratio, F0_6) THEN "bullish"
                      ELSE IF FLt(positive_ratio, F0_4) THEN "bearish"
                      ELSE "neutral",
     market_sentiment |-> IF FGt(positive_ratio, F0_5) THEN "bullish" ELSE "bearish",
     sector_trends |-> [i \in 1..Len(sector_performance) |->
                           [sector |-> sector_performance[i].sector,
                            trend  |-> SectorTrend(sector_performance[i].price_change_percent)]],
     status |-> "success"]

\* counted: the entries of the list without an error
MarketTrendsCounted(sector_performance, items, counted) ==
    IF Cardinality(counted) = 0
    THEN Failed("local variable 'positive_ratio' referenced before assignment")
    ELSE MarketTrendsOf(sector_performance,
                        FDiv(FromInt(Cardinality({i \in counted :
                                                     FGt(items[i].change_percent, F0)})),
                             FromInt(Cardinality(counted))))

MarketTrendsFrom(market_indices, sector_performance) ==
    IF market_indices.shape = "dict" /\ Len(market_indices.items) > 0
    THEN Failed("'str' object has no attribute 'get'")
    ELSE MarketTrendsCounted(sector_performance, market_indices.items,
                             {i \in 1..Len(market_indices.items) :
                                 ~IsError(market_indices.items[i])})

AnalyzeMarketTrends(market_data) ==
    MarketTrendsFrom(IF Has(market_data, "market_indices") THEN market_data.market_indices
                     ELSE [shape |-> "dict", items |-> <<>>],
                     IF Has(market_data, "sector_performance")
                     THEN market_data.sector_performance ELSE <<>>)

\* an article whose sentiment is not a dict makes "s.get" raise
WellFormed(articles) == \A i \in 1..Len(articles) : articles[i].sentiment.ok

SentimentImpactOf(articles, avg_polarity) ==
    [sentiment_score |-> avg_polarity,
     impact_level |-> IF FGt(avg_polarity, F0_2) THEN "positive"
                      ELSE IF FLt(avg_polarity, FNeg(F0_2)) THEN "negative"
                      ELSE "neutral",
     article_count |-> Len(articles),
     recommendation |-> IF FGt(avg_polarity, F0_1) THEN "Consider positive sentiment"
                        ELSE IF FLt(avg_polarity, FNeg(F0_1)) THEN "Monitor negative sentiment"
                        ELSE "Neutral sentiment impact"]

SymbolSentimentImpact(articles, impl) ==
    SentimentImpactOf(articles,
                      FDiv(PySum(Polarities(articles), impl), FromInt(Len(articles))))

AnalyzeSentimentImpact(news_sentiment, impl) ==
    LET individual_news == GetDict(news_sentiment, "individual_news")
        market_sentiment == GetDict(news_sentiment, "market_sentiment")
        with_news == {s \in DOMAIN individual_news : Len(individual_news[s]) > 0}
    IN  IF \E s \in with_news : ~WellFormed(individual_news[s])
        THEN Failed("'NoneType' object has no attribute 'get'")
        ELSE [individual_sentiment_impact |->
                  [s \in with_news |-> SymbolSentimentImpact(individual_news[s], impl)],
              overall_market_sentiment |-> GetDict(market_sentiment, "overall_sentiment"),
              status |-> "success"]

\* reads the status of the technical, fundamental and market results; the
\* issues key, set only when there are issues, is an empty list otherwise
AnalysisSummaryOf(results, issues) ==
    [total_symbols_analyzed |-> Len(results.symbols),
     analysis_quality |-> IF issues # <<>> THEN "partial" ELSE "good",
     issues |-> issues,
     overall_market_outlook |->
         IF Has(results.market_analysis, "market_trend")
         THEN results.market_analysis.market_trend ELSE "neutral"]

GenerateAnalysisSummary(results) ==
    AnalysisSummaryOf(results,
        (IF StatusOf(results.technical_analysis) # "success"
         THEN <<"Technical analysis incomplete">> ELSE <<>>)
        \o (IF StatusOf(results.fundamental_analysis) # "success"
            THEN <<"Fundamental analysis incomplete">> ELSE <<>>)
        \o (IF StatusOf(results.market_analysis) # "success"
            THEN <<"Market analysis incomplete">> ELSE <<>>))

\* results: the four stage results, to which the summary is added
AnalysisResult(results) == results @@ [analysis_summary |-> GenerateAnalysisSummary(results)]

ExecuteComprehensiveAnalysis_RaisesFailure(collected_data, engine, impl) ==
    IF IsError(AnalyzeMarketTrends(collected_data.market_data))
    THEN AnalyzeMarketTrends(collected_data.market_data)
    ELSE AnalysisResult(
             [symbols |-> collected_data.symbols,
              technical_analysis   |-> PerformTechnicalAnalysis(collected_data.symbols, engine),
              fundamental_analysis |->
                  PerformFundamentalAnalysis(collected_data.symbols,
                                             GetDict(collected_data.stock_data, "stocks")),
              market_analysis      |-> AnalyzeMarketTrends(collected_data.market_data),
              sentiment_analysis   |-> AnalyzeSentimentImpact(collected_data.news_sentiment, impl)])

\* engine: see PerformTechnicalAnalysis; the timestamp is left out
ExecuteComprehensiveAnalysis(collected_data, engine, impl) ==
    AnalysisResult(
        [symbols |-> collected_data.symbols,
         technical_analysis   |-> PerformTechnicalAnalysis(collected_data.symbols, engine),
         fundamental_analysis |->
             PerformFundamentalAnalysis(collected_data.symbols,
                                        GetDict(collected_data.stock_data, "stocks")),
         market_analysis      |-> AnalyzeMarketTrends(collected_data.market_data),
         sentiment_analysis   |-> AnalyzeSentimentImpact(collected_data.news_sentiment, impl)])

\* ------------------------------------------------------------------------
\* agents/risk_agent.py: the stages of the risk assessment
\* ------------------------------------------------------------------------

\* tech_data.get("trading_signals", {}).get("overall_signal", "NEUTRAL")
OverallSignalOf(tech_data) ==
    LET trading_signals == GetDict(tech_data, "trading_signals")
    IN  IF Has(trading_signals, "overall_signal") THEN trading_signals.overall_signal
        ELSE "NEUTRAL"

\* tech_data.get("trading_signals", {}).get("confidence", 0.5)
ConfidenceOf(tech_data) ==
    LET trading_signals == GetDict(tech_data, "trading_signals")
    IN  IF Has(trading_signals, "confidence") THEN trading_signals.confidence ELSE F0_5

\* tech_data.get("current_price")
CurrentPriceOf(tech_data) ==
    IF Has(tech_data, "current_price") THEN tech_data.current_price ELSE PyNone

\* risk_data.get("risk_score", 50)
RiskScoreOf(risk_data) == IF Has(risk_data, "risk_score") THEN risk_data.risk_score ELSE F50

\* one try/except around the whole loop.  A symbol whose Close dict is
\* empty raises in calculate_max_drawdown (np.min of no items), which
\* replaces the results of all symbols.
SymbolRiskMetrics(stock_data, s) ==
    IF ~Has(stock_data, s) \/ IsError(stock_data[s])
    THEN [error |-> "No data available for risk calculation"]
    ELSE LET hist_data == GetDict(stock_data[s], "historical_data")
         IN  IF DOMAIN hist_data = {} \/ ~Has(hist_data, "Close")
             THEN [error |-> "Insufficient historical data"]
             ELSE MeasuredRiskMetrics(hist_data.Close)

CalculateRiskMetrics(symbols, stock_data) ==
    IF \E s \in Range(symbols) :
           /\ Has(stock_data, s) /\ ~IsError(stock_data[s])
           /\ Has(GetDict(stock_data[s], "historical_data"), "Close")
           /\ Len(stock_data[s].historical_data.Close) = 0
    THEN Failed("zero-size array to reduction operation minimum which has no identity")
    ELSE [risk_metrics |-> [s \in Range(symbols) |-> SymbolRiskMetrics(stock_data, s)],
          status |-> "success"]

\* the if/elif chain of _generate_fallback_risk_metrics; the scores are
\* Python ints, held here as the floats of the same value
FallbackRiskScore_FromThreshold(technical_signal, confidence) ==
    IF technical_signal = "BULLISH" /\ FGe(confidence, F0_7) THEN F35
    ELSE IF technical_signal = "BEARISH" /\ FGe(confidence, F0_7) THEN F75
    ELSE IF FLe(confidence, F0_3) THEN F65
    ELSE F50

FallbackRiskScore(technical_signal, confidence) ==
    IF technical_signal = "BULLISH" /\ FGt(confidence, F0_7) THEN F35
    ELSE IF technical_signal = "BEARISH" /\ FGt(confidence, F0_7) THEN F75
    ELSE IF FLt(confidence, F0_3) THEN F65
    ELSE F50

\* the fixed estimates of a fallback record; the two value-at-risk
\* estimates are left out as in MeasuredRiskMetrics
FallbackEstimates(risk_score) ==
    [volatility   |-> [daily |-> F0_02, annualized |-> F0_32],
     max_drawdown |-> FNeg(F0_15),
     sharpe_ratio |-> F0_8,
     beta         |-> F1_1,
     risk_score   |-> risk_score]

GenerateFallbackRiskMetrics_NoNote(symbols, technical_analysis) ==
    [risk_metrics |->
         [s \in Range(symbols) |->
             LET tech_data == GetDict(technical_analysis, s)
             IN  IF IsError(tech_data) THEN [error |-> "No technical data available"]
                 ELSE FallbackEstimates(FallbackRiskScore(OverallSignalOf(tech_data),
                                                          ConfidenceOf(tech_data)))],
     status |-> "success"]

GenerateFallbackRiskMetrics(symbols, technical_analysis) ==
    [risk_metrics |->
         [s \in Range(symbols) |->
             LET tech_data == GetDict(technical_analysis, s)
             IN  IF IsError(tech_data) THEN [error |-> "No technical data available"]
                 ELSE FallbackEstimates(FallbackRiskScore(OverallSignalOf(tech_data),
                                                          ConfidenceOf(tech_data)))
                      @@ [estimation_note |->
                              "Risk metrics estimated from technical analysis due to limited historical data"]],
     status |-> "success"]

CalculateDiversificationScore(num_stocks) ==
    IF num_stocks >= 10 THEN F90
    ELSE IF num_stocks >= 5 THEN F70
    ELSE IF num_stocks >= 3 THEN F50
    ELSE F20

EstimatePortfolioVolatility(risk_metrics, valid_symbols) ==
    LET with_vol == SelectSeq(valid_symbols, LAMBDA s : Has(risk_metrics[s], "volatility"))
        volatilities == [i \in 1..Len(with_vol) |-> risk_metrics[with_vol[i]].volatility.annualized]
    IN  IF Len(volatilities) = 0 THEN F0_2
        ELSE FMul(NpMean(volatilities), IF Len(volatilities) > 1 THEN F0_8 ELSE F1)

GeneratePortfolioRecommendations(portfolio_risk) ==
    (IF portfolio_risk.risk_level \in {"HIGH", "VERY_HIGH"}
     THEN <<"Consider reducing position sizes due to high portfolio risk",
            "Implement strict stop-loss orders">>
     ELSE <<>>)
    \o (IF FLt(portfolio_risk.diversification_score, F50)
        THEN <<"Increase diversification across sectors and asset classes">> ELSE <<>>)
    \o (IF FGt(portfolio_risk.risk_concentration, F20)
        THEN <<"Reduce concentration risk by rebalancing positions">> ELSE <<>>)

\* the result for no valid symbol has no status key
PortfolioRiskResult(portfolio_risk) ==
    [portfolio_risk  |-> portfolio_risk,
     recommendations |-> GeneratePortfolioRecommendations(portfolio_risk),
     status          |-> "success"]

PortfolioRiskOf(risk_metrics, valid_symbols, individual_risks) ==
    IF Len(individual_risks) = 0
    THEN [error |-> "No valid risk data for portfolio assessment"]
    ELSE PortfolioRiskResult(
             [average_risk_score    |-> NpMean(individual_risks),
              risk_concentration    |-> NpStd(individual_risks),
              diversification_score |-> CalculateDiversificationScore(Len(valid_symbols)),
              portfolio_volatility  |->
                  EstimatePortfolioVolatility(risk_metrics, valid_symbols),
              risk_level            |-> ClassifyRiskLevel(NpMean(individual_risks))])

PortfolioRiskFrom(risk_metrics, valid_symbols) ==
    PortfolioRiskOf(risk_metrics, valid_symbols,
                    [i \in 1..Len(valid_symbols) |-> RiskScoreOf(risk_metrics[valid_symbols[i]])])

AssessPortfolioRisk(symbols, risk_metrics) ==
    PortfolioRiskFrom(risk_metrics,
                      SelectSeq(symbols, LAMBDA s :
                          Has(risk_metrics, s) /\ ~IsError(risk_metrics[s])))

IdentifyKeyRisks(tech_data, fund_data, risk_data) ==
    LET trading_signals == GetDict(tech_data, "trading_signals")
        fund_score == IF Has(fund_data, "fundamental_score") THEN fund_data.fundamental_score
                      ELSE 50
        volatility == IF Has(GetDict(risk_data, "volatility"), "annualized")
                      THEN risk_data.volatility.annualized ELSE F0
    IN  (IF Has(trading_signals, "overall_signal") /\ trading_signals.overall_signal = "BEARISH"
         THEN <<"Negative technical momentum">> ELSE <<>>)
        \o (IF fund_score < 40 THEN <<"Weak fundamental metrics">> ELSE <<>>)
        \o (IF FGt(RiskScoreOf(risk_data), F70)
            THEN <<"High volatility and drawdown risk">> ELSE <<>>)
        \o (IF FGt(volatility, F0_4) THEN <<"Extremely high volatility">> ELSE <<>>)

\* the record of one symbol in generate_investment_recommendations; the
\* reasoning text and the two price targets are left out.  The fundamental
\* score is a Python int, or the default 50 when the symbol has no entry.
RecommendationRecord(tech_data, fund_data, risk_data, recommendation) ==
    [recommendation |-> recommendation.action,
     confidence     |-> recommendation.confidence,
     position_size  |-> CalculatePositionSize(RiskScoreOf(risk_data), ConfidenceOf(tech_data)),
     current_price  |-> CurrentPriceOf(tech_data),
     target_price   |-> CalculatePriceTargets(CurrentPriceOf(tech_data),
                                              OverallSignalOf(tech_data),
                                              RiskScoreOf(risk_data)).target_price,
     stop_loss      |-> CalculatePriceTargets(CurrentPriceOf(tech_data),
                                              OverallSignalOf(tech_data),
                                              RiskScoreOf(risk_data)).stop_loss,
     risk_level     |-> ClassifyRiskLevel(RiskScoreOf(risk_data)),
     time_horizon   |-> recommendation.time_horizon,
     key_risks      |-> IdentifyKeyRisks(tech_data, fund_data, risk_data)]

SymbolRecommendation(tech_data, fund_data, risk_data) ==
    IF IsError(tech_data) \/ IsError(fund_data) \/ IsError(risk_data)
    THEN [recommendation |-> "INSUFFICIENT_DATA", reason |-> "Incomplete analysis data"]
    ELSE RecommendationRecord(tech_data, fund_data, risk_data,
             GenerateStockRecommendation(
                 OverallSignalOf(tech_data), ConfidenceOf(tech_data),
                 FromInt(IF Has(fund_data, "fundamental_score")
                         THEN fund_data.fundamental_score ELSE 50),
                 RiskScoreOf(risk_data)))

\* recommendations: the items [symbol, rec] of the dict
CountActions(recommendations, S) ==
    Cardinality({i \in 1..Len(recommendations) : recommendations[i].rec.recommendation \in S})

StrategyOf(buy_count, sell_count, hold_count) ==
    [strategy |-> IF buy_count > sell_count THEN "AGGRESSIVE_GROWTH"
                  ELSE IF sell_count > buy_count THEN "DEFENSIVE" ELSE "BALANCED",
     buy_signals  |-> buy_count,
     sell_signals |-> sell_count,
     hold_signals |-> hold_count,
     market_outlook |-> IF buy_count > sell_count THEN "BULLISH"
                        ELSE IF sell_count > buy_count THEN "BEARISH" ELSE "NEUTRAL"]

GenerateOverallStrategy(recommendations) ==
    StrategyOf(CountActions(recommendations, BuyActions),
               CountActions(recommendations, SellActions),
               CountActions(recommendations, {"HOLD"}))

\* A stage that failed as a whole has no inner dict, and ".get(..., {})"
\* then finds no entry for any symbol.  Nothing in the loop raises on the
\* results of the earlier stages.
RecommendationsResult(recommendations, items, impl) ==
    [individual_recommendations |-> recommendations,
     portfolio_allocation |-> GeneratePortfolioAllocation(items, impl),
     overall_strategy     |-> GenerateOverallStrategy(items),
     status               |-> "success"]

RecommendationsOf(symbols, recommendations, impl) ==
    RecommendationsResult(recommendations,
                          [i \in 1..Len(symbols) |->
                              [symbol |-> symbols[i], rec |-> recommendations[symbols[i]]]],
                          impl)

RecommendationsFrom(symbols, technical_analysis, fundamental_analysis, risk_metrics, impl) ==
    RecommendationsOf(symbols,
                      [s \in Range(symbols) |->
                          SymbolRecommendation(GetDict(technical_analysis, s),
                                               GetDict(fundamental_analysis, s),
                                               GetDict(risk_metrics, s))],
                      impl)

GenerateInvestmentRecommendations(analysis_results, risk_assessment, impl) ==
    RecommendationsFrom(
        analysis_results.symbols,
        GetDict(GetDict(analysis_results, "technical_analysis"), "technical_analysis"),
        GetDict(GetDict(analysis_results, "fundamental_analysis"), "fundamental_analysis"),
        GetDict(risk_assessment, "risk_metrics"),
        impl)

\* the fixed parts of the plan are left out; immediate_actions is the value
\* of the key, the empty list when the key is not set
GenerateRiskManagementPlan(results) ==
    LET portfolio_risk == GetDict(GetDict(results, "portfolio_risk"), "portfolio_risk")
        risk_level == IF Has(portfolio_risk, "risk_level") THEN portfolio_risk.risk_level
                      ELSE "MODERATE"
    IN  [immediate_actions |->
             IF risk_level \in {"HIGH", "VERY_HIGH"}
             THEN <<"Reduce position sizes", "Implement tighter stop losses",
                    "Consider hedging strategies">>
             ELSE <<>>]

\* the stock_data execute_risk_assessment builds from the technical results:
\* every Close dict in it is empty
RiskStockData(symbols, technical_analysis) ==
    [s \in {x \in Range(symbols) : Has(technical_analysis, x)} |->
        IF ~IsError(technical_analysis[s])
        THEN [historical_data |-> [Close |-> <<>>],
              current_price   |-> technical_analysis[s].current_price]
        ELSE [error |-> technical_analysis[s].error]]

UsesFallback_Never(stock_data) == FALSE

\* the condition of the "if not any(...)" in execute_risk_assessment
UsesFallback(stock_data) ==
    ~\E s \in DOMAIN stock_data :
        /\ ~IsError(stock_data[s])
        /\ Has(stock_data[s], "historical_data")
        /\ Len(stock_data[s].historical_data.Close) > 0

\* results: the stage results, to which the plan is added
RiskAssessmentResult(results) ==
    results @@ [risk_management |-> GenerateRiskManagementPlan(results)]

RiskAssessmentOf(analysis_results, risk_metrics, impl) ==
    RiskAssessmentResult(
        [symbols |-> analysis_results.symbols,
         risk_metrics |-> risk_metrics,
         portfolio_risk |->
             AssessPortfolioRisk(analysis_results.symbols,
                                 GetDict(risk_metrics, "risk_metrics")),
         recommendations |->
             GenerateInvestmentRecommendations(analysis_results, risk_metrics, impl)])

RiskAssessmentFrom(analysis_results, technical_analysis, stock_data, impl) ==
    RiskAssessmentOf(analysis_results,
                     IF UsesFallback(stock_data)
                     THEN GenerateFallbackRiskMetrics(analysis_results.symbols, technical_analysis)
                     ELSE CalculateRiskMetrics(analysis_results.symbols, stock_data),
                     impl)

RiskAssessmentWith(analysis_results, technical_analysis, impl) ==
    RiskAssessmentFrom(analysis_results, technical_analysis,
                       RiskStockData(analysis_results.symbols, technical_analysis), impl)

\* the timestamp is left out
ExecuteRiskAssessment(analysis_results, impl) ==
    RiskAssessmentWith(
        analysis_results,
        GetDict(GetDict(analysis_results, "technical_analysis"), "technical_analysis"),
        impl)

\* ------------------------------------------------------------------------
\* core/orchestrator.py
\* ------------------------------------------------------------------------
\* list.sort(key=confidence, reverse=True): stable, the larger first
RECURSIVE InsertByConfidence(_, _)
InsertByConfidence(x, sorted) ==
    IF Len(sorted) = 0 THEN <<x>>
    ELSE IF FGt(x.confidence, sorted[1].confidence) THEN <<x>> \o sorted
    ELSE <<sorted[1]>> \o InsertByConfidence(x, Tail(sorted))

RECURSIVE SortByConfidence(_)
SortByConfidence(xs) ==
    IF Len(xs) = 0 THEN <<>>
    ELSE InsertByConfidence(xs[Len(xs)], SortByConfidence(SubSeq(xs, 1, Len(xs) - 1)))

FirstThree(xs) == SubSeq(xs, 1, Min2(3, Len(xs)))

\* the texts that format a number (risk highlights, portfolio summary) and
\* the leading sectors are left out
GenerateExecutiveSummary(symbols, data, analysis, risk) ==
    LET market_analysis == GetDict(analysis, "market_analysis")
        recommendations ==
            GetDict(GetDict(risk, "recommendations"), "individual_recommendations")
        Picked(S) == SelectSeq(symbols, LAMBDA s :
                         Has(recommendations, s) /\ recommendations[s].recommendation \in S)
        Entries(S) == LET picked == Picked(S)
                      IN  [i \in 1..Len(picked) |->
                              [symbol |-> picked[i],
                               action |-> recommendations[picked[i]].recommendation,
                               confidence |-> recommendations[picked[i]].confidence]]
        portfolio_risk == GetDict(GetDict(risk, "portfolio_risk"), "portfolio_risk")
        portfolio_allocation ==
            GetDict(GetDict(risk, "recommendations"), "portfolio_allocation")
        overall_strategy == GetDict(GetDict(risk, "recommendations"), "overall_strategy")
    IN  [analysis_overview |->
             [symbols_analyzed |-> Len(symbols),
              data_quality     |-> data.summary.data_quality,
              analysis_quality |-> analysis.analysis_summary.analysis_quality],
         key_findings |->
             IF StatusOf(market_analysis) = "success"
             THEN <<market_analysis.market_trend>> ELSE <<>>,
         top_recommendations |->
             [buy  |-> FirstThree(SortByConfidence(Entries(BuyActions))),
              sell |-> FirstThree(SortByConfidence(Entries(SellActions)))],
         risk_highlights |->
             IF DOMAIN portfolio_risk # {} THEN <<portfolio_risk.risk_level>> ELSE <<>>,
         number_of_positions |->
             IF DOMAIN portfolio_allocation # {}
             THEN Len(portfolio_allocation.stock_allocations) ELSE 0,
         investment_strategy |->
             IF DOMAIN overall_strategy # {} THEN overall_strategy.strategy ELSE "None",
         market_outlook |->
             IF DOMAIN overall_strategy # {} THEN overall_strategy.market_outlook ELSE "None"]

\* ------------------------------------------------------------------------
\* State
\* ------------------------------------------------------------------------
VARIABLES
    sumImpl,           \* which builtin sum() the interpreter has (see PySum)
    fn,                \* a component called on its own: the function called
    args,              \*   its arguments
    result,            \*   what it returned (NoResult until it returns)
    pc,                \* the orchestrator: the step the request is at
    request,           \*   the method called and its symbols
    collected_data,    \*   what the data agent returned
    analysis_results,  \*   what the analysis agent returned
    risk_results,      \*   what the risk agent returned
    risk_path,         \*   which of the risk agent's two estimators ran
    final_results      \*   what the orchestrator returned

pipeline == <<pc, request, collected_data, analysis_results, risk_results, risk_path,
              final_results>>
vars == <<sumImpl, fn, args, result, pipeline>>

NoResult == [returned |-> FALSE]
NoArgs   == [none |-> TRUE]

\* no request is running: a component is called on its own
PipelineIdle ==
    /\ pc = "idle"
    /\ request = NoArgs
    /\ collected_data = NoResult
    /\ analysis_results = NoResult
    /\ risk_results = NoResult
    /\ risk_path = "none"
    /\ final_results = NoResult

\* ------------------------------------------------------------------------
\* generate_portfolio_allocation called on a map of recommendations
\* ------------------------------------------------------------------------
MaxRecs == 5

Rec(action, size) == [recommendation |-> action, position_size |-> FromInt(size)]
InsufficientDataRec ==
    [recommendation |-> "INSUFFICIENT_DATA", reason |-> "Incomplete analysis data"]
RecChoices ==
    {Rec("STRONG_BUY", 24), Rec("BUY", 24), Rec("BUY", 20), Rec("BUY", 10),
     Rec("HOLD", 10), InsufficientDataRec}

\* the items of a dict with the keys 1..n
WithSymbols(rs) == [i \in 1..Len(rs) |-> [symbol |-> i, rec |-> rs[i]]]

InitPortfolio ==
    /\ sumImpl \in SumImpls
    /\ fn = "generate_portfolio_allocation"
    /\ \E n \in 0..MaxRecs : \E rs \in [1..n -> RecChoices] :
           args = [recommendations |-> WithSymbols(rs)]
    /\ result = NoResult
    /\ PipelineIdle

CallPortfolio ==
    /\ fn = "generate_portfolio_allocation"
    /\ result = NoResult
    /\ result' = [returned |-> TRUE,
                  value |-> GeneratePortfolioAllocation(args.recommendations, sumImpl)]
    /\ UNCHANGED <<sumImpl, fn, args, pipeline>>

SpecPortfolio == InitPortfolio /\ [][CallPortfolio]_vars

\* C1: whatever recommendations are passed to generate_portfolio_allocation,
\* the returned stock allocations sum to at most 100 and total_invested +
\* cash_allocation is exactly 100.
C1_AllocationsSumTo100 ==
    (fn = "generate_portfolio_allocation" /\ result.returned) =>
        /\ FLe(result.value.total_invested, F100)
        /\ FEq(FAdd(result.value.total_invested, result.value.cash_allocation), F100)

\* ------------------------------------------------------------------------
\* calculate_fundamental_score called on FundamentalMetrics: every field
\* absent or numeric, with values on both sides of and on every threshold
\* ------------------------------------------------------------------------
PeChoices  ==
    {None, NaN, Num(0), Num(500), Num(1000), Num(1500), Num(2000), Num(2500), Num(3000),
     Num(3500)}
RoeChoices == {None, Num(0), Num(-10), Num(5), Num(15), Num(20)}
MarginChoices == {None, Num(0), Num(-5), Num(5), Num(10), Num(12)}
DebtChoices == {None, Num(0), Num(30), Num(50), Num(200), Num(300)}
CurrentChoices == {None, Num(0), Num(50), Num(100), Num(150), Num(200)}

InitFundamental ==
    /\ sumImpl = "plain"
    /\ fn = "calculate_fundamental_score"
    /\ \E pe \in PeChoices, roe \in RoeChoices, pm \in MarginChoices,
          de \in DebtChoices, cr \in CurrentChoices :
           args = [analysis |-> FundamentalMetrics(
                       [trailingPE |-> pe, returnOnEquity |-> roe, profitMargins |-> pm,
                        debtToEquity |-> de, currentRatio |-> cr])]
    /\ result = NoResult
    /\ PipelineIdle

\* the score, and the summary perform_fundamental_analysis makes of it
ScoreAndSummary(score) ==
    [returned |-> TRUE, value |-> score,
     summary |-> IF score.raised THEN "None" ELSE GenerateFundamentalSummary(score.value)]

CallFundamental ==
    /\ fn = "calculate_fundamental_score"
    /\ result = NoResult
    /\ result' = ScoreAndSummary(CalculateFundamentalScore(args.analysis))
    /\ UNCHANGED <<sumImpl, fn, args, pipeline>>

SpecFundamental == InitFundamental /\ [][CallFundamental]_vars

\* C2: calculate_fundamental_score returns a value in [0,100] for every
\* FundamentalMetrics input, whichever fields are present and whatever
\* numbers they hold.
C2_FundamentalScoreInRange ==
    (fn = "calculate_fundamental_score" /\ result.returned) =>
        /\ ~result.value.raised
        /\ result.value.value \in 0..100

\* the scorer has returned for an input whose rules subtract more than 50,
\* and the negative sum came back as 0
C2_Witness ==
    /\ fn = "calculate_fundamental_score" /\ result.returned
    /\ RawFundamentalScore(args.analysis) < 0
    /\ result.value.value = 0

\* ------------------------------------------------------------------------
\* generate_stock_recommendation called on two inputs, to compare the calls
\* ------------------------------------------------------------------------
ConfidenceChoices == {FLit(5, 1), F1}
FundamentalChoices == {FromInt(0), FromInt(50), FromInt(70), FromInt(100)}
RiskChoices == {FromInt(35), FromInt(50), FromInt(75), FromInt(85)}
RecInputs ==
    [technical_signal : Signals, technical_confidence : ConfidenceChoices,
     fundamental_score : FundamentalChoices, risk_score : RiskChoices]

InitRec ==
    /\ sumImpl = "plain"
    /\ fn = "generate_stock_recommendation"
    /\ \E x \in RecInputs, y \in RecInputs : args = <<x, y>>
    /\ result = NoResult
    /\ PipelineIdle

CallRec ==
    /\ fn = "generate_stock_recommendation"
    /\ result = NoResult
    /\ result' = [returned |-> TRUE,
                  value |-> [i \in 1..2 |->
                      GenerateStockRecommendation(
                          args[i].technical_signal, args[i].technical_confidence,
                          args[i].fundamental_score, args[i].risk_score)]]
    /\ UNCHANGED <<sumImpl, fn, args, pipeline>>

SpecRec == InitRec /\ [][CallRec]_vars

ActionRank(action) ==
    CASE action = "STRONG_SELL" -> 1 [] action = "SELL" -> 2 [] action = "HOLD" -> 3
      [] action = "BUY" -> 4 [] action = "STRONG_BUY" -> 5

FixedHorizon(action) ==
    CASE action = "STRONG_SELL" -> "Immediate" [] action = "SELL" -> "1-2 weeks"
      [] action = "HOLD" -> "Monitor" [] action = "BUY" -> "1-3 months"
      [] action = "STRONG_BUY" -> "3-6 months"

ArgCombined(i) ==
    CombinedScore(args[i].technical_signal, args[i].technical_confidence,
                  args[i].fundamental_score, args[i].risk_score)

\* C10: the action of generate_stock_recommendation is monotonic in the
\* combined score (STRONG_SELL < SELL < HOLD < BUY < STRONG_BUY): of two calls
\* the one with the higher combined score never gets the lower action, the
\* tiers are cut at 30, 40, 60 and 70, and every action comes with its fixed
\* time horizon.
C10_ActionMonotonic ==
    (fn = "generate_stock_recommendation" /\ result.returned) =>
        LET c1 == ArgCombined(1)
            c2 == ArgCombined(2)
            r  == result.value
        IN  /\ FLe(c1, c2) => ActionRank(r[1].action) <= ActionRank(r[2].action)
            /\ r[1].time_horizon = FixedHorizon(r[1].action)
            /\ ActionRank(r[1].action) >= 5 <=> FGe(c1, F70)
            /\ ActionRank(r[1].action) >= 4 <=> FGe(c1, F60)
            /\ ActionRank(r[1].action) >= 3 <=> FGe(c1, F40)
            /\ ActionRank(r[1].action) >= 2 <=> FGe(c1, F30)

\* two calls with different combined scores that land in different tiers,
\* the lower one exactly on the threshold 60
C10_Witness ==
    /\ fn = "generate_stock_recommendation" /\ result.returned
    /\ FEq(ArgCombined(1), F60) /\ FGt(ArgCombined(2), F70)
    /\ result.value[1].action = "BUY" /\ result.value[2].action = "STRONG_BUY"

\* ------------------------------------------------------------------------
\* The risk metrics measured on a close series of two or more positive
\* prices (the primary path of the risk stage)
\* ------------------------------------------------------------------------
MaxPrices == 4
PriceChoices == {FromInt(50), FromInt(100), FromInt(101)}

InitRisk ==
    /\ sumImpl = "plain"
    /\ fn = "calculate_risk_metrics"
    /\ \E n \in 2..MaxPrices : \E prices \in [1..n -> PriceChoices] :
           args = [prices |-> prices]
    /\ result = NoResult
    /\ PipelineIdle

CallRisk ==
    /\ fn = "calculate_risk_metrics"
    /\ result = NoResult
    /\ result' = [returned |-> TRUE, value |-> MeasuredRiskMetrics(args.prices)]
    /\ UNCHANGED <<sumImpl, fn, args, pipeline>>

SpecRisk == InitRisk /\ [][CallRisk]_vars

\* C3: on the historical-series path, for a close series of two or more
\* positive prices, 0 <= risk_score <= 100, max_drawdown <= 0, daily and
\* annualized volatility >= 0, and risk_score is the sum of
\* min(annualized volatility * 100, 50) and min(|max_drawdown| * 100, 50).
C3_RiskMetricsInRange ==
    (fn = "calculate_risk_metrics" /\ result.returned) =>
        LET m == result.value
            vol_part == FMin(FMul(m.volatility.annualized, F100), F50)
            dd_part  == FMin(FMul(FAbs(m.max_drawdown), F100), F50)
        IN  /\ FGe(m.risk_score, F0) /\ FLe(m.risk_score, F100)
            /\ FLe(m.max_drawdown, F0)
            /\ FGe(m.volatility.daily, F0) /\ FGe(m.volatility.annualized, F0)
            /\ FGe(vol_part, F0) /\ FLe(vol_part, F50)
            /\ FGe(dd_part, F0) /\ FLe(dd_part, F50)
            /\ FEq(m.risk_score, FAdd(vol_part, dd_part))

\* metrics measured on a series whose volatility part is capped (annualized
\* volatility above 0.5) while the drawdown part is not
C3_Witness ==
    /\ fn = "calculate_risk_metrics" /\ result.returned
    /\ FGt(result.value.volatility.annualized, FLit(5, 1))
    /\ FLt(result.value.max_drawdown, F0)
    /\ FGt(result.value.max_drawdown, FLit(-5, 1))
    /\ FGt(result.value.risk_score, F50) /\ FLt(result.value.risk_score, F100)

\* ------------------------------------------------------------------------
\* calculate_rsi called on a close series: a run of equal closes followed by
\* up to TailLen free closes
\* ------------------------------------------------------------------------
MaxBars == 16
TailLen == 3
BaseClose == FromInt(100)
CloseChoices == {FromInt(99), FromInt(100), FromInt(101)}

ClosesOf(n, tail) ==
    [i \in 1..n |-> IF i <= n - Len(tail) THEN BaseClose ELSE tail[i - (n - Len(tail))]]

InitRsi ==
    /\ sumImpl = "plain"
    /\ fn = "calculate_rsi"
    /\ \E n \in 1..MaxBars : \E tail \in [1..Min2(n, TailLen) -> CloseChoices] :
           args = [closes |-> ClosesOf(n, tail)]
    /\ result = NoResult
    /\ PipelineIdle

CallRsi ==
    /\ fn = "calculate_rsi"
    /\ result = NoResult
    /\ result' = [returned |-> TRUE, value |-> CalculateRsi(args.closes)]
    /\ UNCHANGED <<sumImpl, fn, args, pipeline>>

SpecRsi == InitRsi /\ [][CallRsi]_vars

\* C4: for every series long enough for the 14-period window calculate_rsi
\* returns (no error) an RSI within [0,100], and the RSI is exactly 100
\* exactly when the trailing average loss is 0 and the trailing average gain
\* is > 0.
C4_RsiInRange ==
    (fn = "calculate_rsi" /\ result.returned /\ Len(args.closes) >= RsiPeriod) =>
        /\ ~result.value.raised
        /\ FGe(result.value.value.current_rsi, F0)
        /\ FLe(result.value.value.current_rsi, F100)
        /\ FEq(result.value.value.current_rsi, F100)
               <=> (IsZero(AvgLoss(args.closes)) /\ FGt(AvgGain(args.closes), F0))

\* ------------------------------------------------------------------------
\* analyze_stock called on one symbol: the provider fails, or gives a short
\* history of free bars, or a longer one that rises, falls or stays flat by
\* one a bar, its last bar traded at the usual or at twice the usual volume
\* ------------------------------------------------------------------------
MaxShortBars == 3
Bar(close, volume) ==
    [Close |-> FromInt(close), High |-> FromInt(close + 1), Low |-> FromInt(close - 1),
     Volume |-> FromInt(volume)]
BarChoices == {Bar(100, 1000), Bar(100, 2000), Bar(101, 1000), Bar(99, 1000)}
LongLens == {14, 20, 21}
Ramp(n, slope, lastVolume) ==
    [i \in 1..n |-> Bar(100 + slope * i, IF i = n THEN lastVolume ELSE 1000)]
HistChoices ==
    UNION {[1..n -> BarChoices] : n \in 0..MaxShortBars}
    \cup {Ramp(n, slope, v) : n \in LongLens, slope \in {-1, 0, 1}, v \in {1000, 2000}}
NoInfo == [trailingPE |-> None, returnOnEquity |-> None, profitMargins |-> None,
           debtToEquity |-> None, currentRatio |-> None]

InitTech ==
    /\ sumImpl = "plain"
    /\ fn = "analyze_stock"
    /\ \E answer \in {ProviderFailure} \cup {ProviderData(h, NoInfo) : h \in HistChoices} :
           args = [stock_data |-> GetStockData(answer)]
    /\ result = NoResult
    /\ PipelineIdle

CallTech ==
    /\ fn = "analyze_stock"
    /\ result = NoResult
    /\ result' = [returned |-> TRUE, value |-> AnalyzeStock(args.stock_data)]
    /\ UNCHANGED <<sumImpl, fn, args, pipeline>>

SpecTech == InitTech /\ [][CallTech]_vars

\* C5: for a price series of exactly one bar analyze_stock returns no error
\* result: the rolling-window indicator values are absent and the trading
\* signal is NEUTRAL with confidence 0.5.
C5_SingleBarNeutral ==
    (/\ fn = "analyze_stock" /\ result.returned
     /\ ~IsError(args.stock_data)
     /\ DOMAIN args.stock_data.historical_data # {}
     /\ Len(args.stock_data.historical_data.Close) = 1) =>
        /\ ~IsError(result.value)
        /\ result.value.technical_indicators.moving_averages.sma_20.k = "nan"
        /\ result.value.trading_signals.overall_signal = "NEUTRAL"
        /\ FEq(result.value.trading_signals.confidence, FLit(5, 1))

\* ------------------------------------------------------------------------
\* The orchestrator's requests: analyze_stocks, run by analyze_direct in
\* three steps, and get_quick_analysis.  What a provider answers is drawn
\* anew at every fetch.
\* ------------------------------------------------------------------------
SymbolLists == {<<>>, <<"A">>, <<"A", "B">>}

StrongInfo ==
    [trailingPE |-> Num(1500), returnOnEquity |-> Num(20), profitMargins |-> Num(20),
     debtToEquity |-> Num(25), currentRatio |-> Num(200)]
MalformedInfo ==
    [trailingPE |-> Str, returnOnEquity |-> Num(20), profitMargins |-> Num(20),
     debtToEquity |-> Num(25), currentRatio |-> Num(200)]

ShortHist == <<Bar(100, 1000), Bar(101, 1000), Bar(99, 1000)>>
StockAnswers ==
    {ProviderFailure, ProviderData(ShortHist, StrongInfo), ProviderData(ShortHist, MalformedInfo)}
QuickAnswers ==
    {ProviderFailure, ProviderData(<<>>, NoInfo), ProviderData(ShortHist, NoInfo),
     ProviderData(Ramp(20, 1, 1000), NoInfo)}

\* what the provider answers to the indicator engine's own fetch, and what
\* the engine makes of each answer
EngineAnswers ==
    <<ProviderFailure, ProviderData(Ramp(20, 1, 1000), NoInfo),
      ProviderData(Ramp(21, -1, 2000), NoInfo)>>
EngineResults ==
    <<AnalyzeStock(GetStockData(EngineAnswers[1])), AnalyzeStock(GetStockData(EngineAnswers[2])),
      AnalyzeStock(GetStockData(EngineAnswers[3]))>>

IndexChoices == {<<>>, <<[name |-> "S&P 500", change_percent |-> F1]>>}
SectorChoices == {<<[sector |-> "Technology", price_change_percent |-> F2]>>}
Article(polarity) == [sentiment |-> [ok |-> TRUE, polarity |-> polarity]]
ArticleChoices == {<<>>, <<Article(F0_5), Article(FNeg(F0_2))>>}

Init ==
    /\ sumImpl \in SumImpls
    /\ fn = "none" /\ args = NoArgs /\ result = NoResult
    /\ pc = "start"
    /\ request = NoArgs
    /\ collected_data = NoResult
    /\ analysis_results = NoResult
    /\ risk_results = NoResult
    /\ risk_path = "none"
    /\ final_results = NoResult

\* what analyze_direct returns when a step's result has an "error" key
StepFailed(what, step_result) == [error |-> what, status |-> "failed"]

\* analyze_stocks -> analyze_direct, step 1: execute_data_collection
CollectDataReturns(symbols, data) ==
    /\ request' = [method |-> "analyze_stocks", symbols |-> symbols]
    /\ collected_data' = data
    /\ IF IsError(data)
       THEN /\ final_results' = StepFailed("Data collection failed", data)
            /\ pc' = "done"
       ELSE /\ final_results' = final_results
            /\ pc' = "analysis"

CollectData ==
    /\ pc = "start"
    /\ \E symbols \in SymbolLists :
       \E answers \in [Range(symbols) -> StockAnswers] :
       \E indices \in IndexChoices : \E sectors \in SectorChoices :
       \E articles \in ArticleChoices :
           CollectDataReturns(symbols,
                              ExecuteDataCollection(symbols, answers, indices, sectors,
                                                    articles, sumImpl))
    /\ UNCHANGED <<sumImpl, fn, args, result, analysis_results, risk_results, risk_path>>

\* step 2: execute_comprehensive_analysis; the technical stage fetches
\* every symbol's data again
AnalyzeReturns_ReportsEarly(analysis) ==
    /\ analysis_results' = analysis
    /\ final_results' = [symbols |-> request.symbols, method |-> "direct_orchestration",
                         status |-> "success"]
    /\ pc' = "risk"

AnalyzeReturns(analysis) ==
    /\ analysis_results' = analysis
    /\ IF IsError(analysis)
       THEN /\ final_results' = StepFailed("Analysis failed", analysis)
            /\ pc' = "done"
       ELSE /\ final_results' = final_results
            /\ pc' = "risk"

Analyze ==
    /\ pc = "analysis"
    /\ \E e \in [Range(request.symbols) -> 1..Len(EngineAnswers)] :
           AnalyzeReturns(ExecuteComprehensiveAnalysis(
                              collected_data,
                              [s \in Range(request.symbols) |-> EngineResults[e[s]]],
                              sumImpl))
    /\ UNCHANGED <<sumImpl, fn, args, result, request, collected_data, risk_results, risk_path>>

\* step 3: execute_risk_assessment, and the final report
AssessRiskReturns(risk, technical_analysis) ==
    /\ risk_results' = risk
    /\ risk_path' = IF UsesFallback(RiskStockData(request.symbols, technical_analysis))
                    THEN "fallback" ELSE "measured"
    /\ final_results' =
           IF IsError(risk) THEN StepFailed("Risk assessment failed", risk)
           ELSE [symbols |-> request.symbols,
                 executive_summary |->
                     GenerateExecutiveSummary(request.symbols, collected_data,
                                              analysis_results, risk),
                 method |-> "direct_orchestration",
                 status |-> "success"]

AssessRisk ==
    /\ pc = "risk"
    /\ AssessRiskReturns(
           ExecuteRiskAssessment(analysis_results, sumImpl),
           GetDict(GetDict(analysis_results, "technical_analysis"), "technical_analysis"))
    /\ pc' = "done"
    /\ UNCHANGED <<sumImpl, fn, args, result, request, collected_data, analysis_results>>

\* get_quick_analysis: the stock data, the news, the technical stage and the
\* measured risk metrics of one symbol; collected_data, analysis_results and
\* risk_results hold its locals stock_data and news_data, technical_analysis
\* and risk_metrics.  Nothing in it raises on what the agents return.
QuickAnalysisOf(symbol, stock, tech, risk_data, sentiments) ==
    [current_price |->
         IF Has(stock, "current_price") THEN stock.current_price ELSE PyNone,
     technical_signal |->
         IF Has(GetDict(tech, "trading_signals"), "overall_signal")
         THEN tech.trading_signals.overall_signal ELSE "None",
     risk_level |-> ClassifyRiskLevel(RiskScoreOf(risk_data)),
     news_sentiment |->
         IF Has(GetDict(sentiments, symbol), "sentiment_label")
         THEN sentiments[symbol].sentiment_label ELSE "None"]

QuickAnalysisReturns(symbol, stock_data, news_data, technical_analysis, risk_metrics) ==
    /\ request' = [method |-> "get_quick_analysis", symbols |-> <<symbol>>]
    /\ collected_data' = [stock_data |-> stock_data, news_sentiment |-> news_data]
    /\ analysis_results' = [technical_analysis |-> technical_analysis]
    /\ risk_results' = [risk_metrics |-> risk_metrics]
    /\ risk_path' = "measured"
    /\ final_results' =
           [symbol |-> symbol,
            quick_analysis |->
                QuickAnalysisOf(
                    symbol,
                    GetDict(GetDict(stock_data, "stocks"), symbol),
                    GetDict(GetDict(technical_analysis, "technical_analysis"), symbol),
                    GetDict(GetDict(risk_metrics, "risk_metrics"), symbol),
                    GetDict(GetDict(news_data, "market_sentiment"), "symbol_sentiments")),
            status |-> "success"]

QuickRiskMetrics(symbol, stock_data, news_data, technical_analysis) ==
    QuickAnalysisReturns(symbol, stock_data, news_data, technical_analysis,
                         CalculateRiskMetrics(<<symbol>>, GetDict(stock_data, "stocks")))

GetQuickAnalysis ==
    /\ pc = "start"
    /\ \E symbol \in {"A", "B"} : \E answer \in QuickAnswers :
       \E articles \in ArticleChoices : \E e \in 1..Len(EngineAnswers) :
           QuickRiskMetrics(
               symbol,
               CollectStockData(<<symbol>>, [s \in {symbol} |-> answer]),
               CollectNewsSentiment(<<symbol>>, articles, sumImpl),
               PerformTechnicalAnalysis(<<symbol>>, [s \in {symbol} |-> EngineResults[e]]))
    /\ pc' = "done"
    /\ UNCHANGED <<sumImpl, fn, args, result>>

Next == CollectData \/ Analyze \/ AssessRisk \/ GetQuickAnalysis

Spec == Init /\ [][Next]_vars

\* the per-symbol dicts the recommendations of a request are made from
TechnicalOf(analysis) ==
    GetDict(GetDict(analysis, "technical_analysis"), "technical_analysis")
FundamentalOf(analysis) ==
    GetDict(GetDict(analysis, "fundamental_analysis"), "fundamental_analysis")
RiskMetricsOf(risk) == GetDict(GetDict(risk, "risk_metrics"), "risk_metrics")
RecommendationsIn(risk) ==
    GetDict(GetDict(risk, "recommendations"), "individual_recommendations")

\* analyze_stocks has run its risk assessment
Assessed == request # NoArgs /\ request.method = "analyze_stocks" /\ risk_results # NoResult

\* the symbol's entry in one of the three inputs is an error or is missing
Unusable(d, s) == ~Has(d, s) \/ IsError(d[s])

\* C6: a requested symbol whose technical analysis, fundamental analysis or
\* risk metrics is an error or is missing altogether gets INSUFFICIENT_DATA
\* from generate_investment_recommendations, and a symbol gets one of the
\* five numeric actions only when all three inputs exist and are non-error.
C6_InsufficientData ==
    Assessed =>
        \A s \in Range(request.symbols) :
            /\ (\/ Unusable(TechnicalOf(analysis_results), s)
                \/ Unusable(FundamentalOf(analysis_results), s)
                \/ Unusable(RiskMetricsOf(risk_results), s))
               => RecommendationsIn(risk_results)[s].recommendation = "INSUFFICIENT_DATA"
            /\ RecommendationsIn(risk_results)[s].recommendation \in ActionNames
               => /\ ~Unusable(TechnicalOf(analysis_results), s)
                  /\ ~Unusable(FundamentalOf(analysis_results), s)
                  /\ ~Unusable(RiskMetricsOf(risk_results), s)

\* the fundamental stage run on the one symbol s alone
FundamentalAlone(stocks, s) == PerformFundamentalAnalysis(<<s>>, [x \in {s} |-> stocks[s]])

\* the symbols of the request that do not fail the fundamental stage
SoundSymbols(symbols, stocks) ==
    SelectSeq(symbols, LAMBDA s : StatusOf(FundamentalAlone(stocks, s)) = "success")

\* C7: in a multi-symbol run a failure while processing one symbol inside a
\* stage is confined to that symbol: the stage does not fail as a whole and
\* every other symbol receives the result it would receive if the failing
\* symbol were not in the request.  Stated for the stages analyze_stocks has
\* run on the request: the technical and the fundamental stage and, once the
\* risk assessment is done, the recommendations.
C7_FailureConfined ==
    (/\ request # NoArgs /\ request.method = "analyze_stocks"
     /\ Len(request.symbols) > 1
     /\ analysis_results # NoResult)
    =>
    /\ StatusOf(analysis_results.technical_analysis) = "success"
    /\ StatusOf(analysis_results.fundamental_analysis) = "success"
    /\ \A s \in Range(SoundSymbols(request.symbols, collected_data.stock_data.stocks)) :
           /\ Has(FundamentalOf(analysis_results), s)
           /\ FundamentalOf(analysis_results)[s] =
                  PerformFundamentalAnalysis(
                      SoundSymbols(request.symbols, collected_data.stock_data.stocks),
                      [x \in Range(SoundSymbols(request.symbols,
                                                collected_data.stock_data.stocks)) |->
                          collected_data.stock_data.stocks[x]]).fundamental_analysis[s]
    /\ risk_results # NoResult => StatusOf(risk_results.recommendations) = "success"

\* the per-symbol risk records a request has produced that are not errors
RiskRecords ==
    {RiskMetricsOf(risk_results)[s] :
        s \in {x \in DOMAIN RiskMetricsOf(risk_results) :
                  ~IsError(RiskMetricsOf(risk_results)[x])}}

\* C8: every per-symbol risk record made by the fallback estimator carries
\* the estimation marker and no record measured on a return series carries
\* it: a non-error risk record of the output has the estimation_note key
\* exactly when the fallback estimator made it.
C8_EstimatesMarked ==
    risk_results # NoResult =>
        \A rec \in RiskRecords : Has(rec, "estimation_note") <=> risk_path = "fallback"

\* analyze_stocks has estimated the risk of a symbol from its technical
\* analysis, and the record carries the marker
C8_Witness ==
    /\ Assessed /\ risk_path = "fallback"
    /\ \E rec \in RiskRecords : Has(rec, "estimation_note") /\ FEq(rec.risk_score, F35)

\* ------------------------------------------------------------------------
\* execute_comprehensive_analysis called on its own with the collected data
\* a caller hands it: the market indices as the data agent's dict or as a
\* list of entries, the news with or without a sentiment dict on the article
\* ------------------------------------------------------------------------
MarketChoices ==
    {[market_indices |-> [shape |-> "dict", items |-> <<[name |-> "S&P 500", change_percent |-> F1]>>],
      sector_performance |-> <<>>, status |-> "success"],
     [market_indices |-> [shape |-> "list", items |-> <<[name |-> "S&P 500", change_percent |-> F1]>>],
      sector_performance |-> <<>>, status |-> "success"],
     [market_indices |-> [shape |-> "list", items |-> <<>>],
      sector_performance |-> <<>>, status |-> "success"]}

\* an article whose "sentiment" is None
BareArticle == [sentiment |-> [ok |-> FALSE]]
NewsChoices == {<<>>, <<Article(F0_5)>>, <<BareArticle>>}

InitAnalysis ==
    /\ sumImpl \in SumImpls
    /\ fn = "execute_comprehensive_analysis"
    /\ \E symbols \in {<<"A">>, <<"A", "B">>} :
       \E answers \in [Range(symbols) -> StockAnswers] :
       \E e \in [Range(symbols) -> 1..Len(EngineAnswers)] :
       \E market_data \in MarketChoices : \E news \in NewsChoices :
           args = [collected_data |->
                       [symbols |-> symbols,
                        stock_data |-> CollectStockData(symbols, answers),
                        market_data |-> market_data,
                        news_sentiment |->
                            [individual_news |-> [s \in Range(symbols) |-> news],
                             market_sentiment |-> EmptyDict,
                             status |-> "success"]],
                   engine |-> e]
    /\ result = NoResult
    /\ PipelineIdle

CallAnalysis ==
    /\ fn = "execute_comprehensive_analysis"
    /\ result = NoResult
    /\ result' = [returned |-> TRUE,
                  value |-> ExecuteComprehensiveAnalysis(
                                args.collected_data,
                                [s \in DOMAIN args.engine |-> EngineResults[args.engine[s]]],
                                sumImpl)]
    /\ UNCHANGED <<sumImpl, fn, args, pipeline>>

SpecAnalysis == InitAnalysis /\ [][CallAnalysis]_vars

\* the four stages of the analysis and the issue that names each
Stages == {"technical_analysis", "fundamental_analysis", "market_analysis",
           "sentiment_analysis"}
StageIssue ==
    [technical_analysis   |-> "Technical analysis incomplete",
     fundamental_analysis |-> "Fundamental analysis incomplete",
     market_analysis      |-> "Market analysis incomplete",
     sentiment_analysis   |-> "Sentiment analysis incomplete"]
FailedStages(results) == {st \in Stages : StatusOf(results[st]) # "success"}

TrendLens == {60}
TrendBases == {100}
TrendSlopes == {1, 2, 3}
TrendTurns == {20, 30, 40, 55}
TrendVolumes == {1000, 5000}

TrendClose(base, early, late, turn, i) ==
    base + (IF i <= turn THEN early * i ELSE early * turn + late * (i - turn))
Trend(n, base, early, late, turn, volume) ==
    [i \in 1..n |-> Bar(TrendClose(base, early, late, turn, i), volume)]

InitTrend ==
    /\ sumImpl = "plain"
    /\ fn = "analyze_stock"
    /\ \E n \in TrendLens, base \in TrendBases, early \in TrendSlopes, late \in TrendSlopes,
          turn \in TrendTurns, volume \in TrendVolumes :
           args = [stock_data |->
                       GetStockData(ProviderData(Trend(n, base, early, late, turn, volume),
                                                 NoInfo))]
    /\ result = NoResult
    /\ PipelineIdle

SpecTrend == InitTrend /\ [][CallTech]_vars

StrictlyIncreasing(xs) == \A i \in 1..(Len(xs) - 1) : FLt(xs[i], xs[i + 1])
AllEqual(xs) == \A i \in 1..Len(xs) : FEq(xs[i], xs[1])

\* the engine was given 60 bars of strictly increasing closes and flat volume
RisingSixty(stock_data) ==
    /\ ~IsError(stock_data)
    /\ DOMAIN stock_data.historical_data # {}
    /\ Len(stock_data.historical_data.Close) = 60
    /\ StrictlyIncreasing(stock_data.historical_data.Close)
    /\ AllEqual(stock_data.historical_data.Volume)

\* C11: for every price series of 60 bars whose closes are strictly
\* increasing and whose volume is constant, analyze_stock returns
\* overall_signal = BULLISH and an SMA20 strictly below the current price.
C11_RisingIsBullish ==
    (fn = "analyze_stock" /\ result.returned /\ RisingSixty(args.stock_data)) =>
        /\ ~IsError(result.value)
        /\ result.value.trading_signals.overall_signal = "BULLISH"
        /\ FLt(result.value.technical_indicators.moving_averages.sma_20,
               result.value.current_price)

\* ------------------------------------------------------------------------
\* Claims about the course of an analyze_stocks request
\* ------------------------------------------------------------------------
\* C12: analyze_stocks called with an empty symbol list is rejected: it
\* returns a failure without running data collection, analysis or risk
\* assessment and without producing a report with status "success".
C12_EmptyRejected ==
    (request # NoArgs /\ request.method = "analyze_stocks" /\ request.symbols = <<>>) =>
        /\ collected_data = NoResult
        /\ analysis_results = NoResult
        /\ risk_results = NoResult
        /\ pc = "done" => (IsError(final_results) /\ StatusOf(final_results) = "failed")

\* analyze_stocks has run its analysis step
Analyzed ==
    request # NoArgs /\ request.method = "analyze_stocks" /\ analysis_results # NoResult

\* C13: in one pipeline run the technical-analysis stage does no data
\* retrieval of its own: the indicator set and current price of a symbol are
\* computed from the price data that the data-collection stage fetched for
\* that symbol, so a symbol whose collected stock data is non-error never
\* gets a technical-analysis error caused by a fetch, and technical and
\* fundamental results stem from the same snapshot.
C13_TechnicalFromCollected ==
    Analyzed =>
        \A s \in Range(request.symbols) :
            /\ TechnicalOf(analysis_results)[s]
                   = AnalyzeStock(collected_data.stock_data.stocks[s])
            /\ ~IsError(collected_data.stock_data.stocks[s])
                   => TechnicalOf(analysis_results)[s] # FetchError
            /\ (~IsError(collected_data.stock_data.stocks[s])
                    /\ ~IsError(TechnicalOf(analysis_results)[s]))
                   => TechnicalOf(analysis_results)[s].current_price
                          = collected_data.stock_data.stocks[s].current_price

\* ------------------------------------------------------------------------
\* The rule table of the fundamental score, in hundredths: a rule adds its
\* delta when its field is present and lies in its band
\* ------------------------------------------------------------------------
ScoredFieldNames ==
    <<"pe_ratio", "return_on_equity", "profit_margin", "debt_to_equity", "current_ratio">>

FieldOf(analysis, name) ==
    CASE name = "pe_ratio"         -> analysis.valuation_metrics.pe_ratio
      [] name = "return_on_equity" -> analysis.profitability_metrics.return_on_equity
      [] name = "profit_margin"    -> analysis.profitability_metrics.profit_margin
      [] name = "debt_to_equity"   -> analysis.financial_health.debt_to_equity
      [] name = "current_ratio"    -> analysis.financial_health.current_ratio

\* the delta of the rules of one field for the number v
TableDelta(name, v) ==
    CASE name = "pe_ratio" ->
             IF 1000 <= v /\ v <= 2000 THEN 10 ELSE IF v < 1000 \/ v > 3000 THEN -10 ELSE 0
      [] name = "return_on_equity" -> IF v > 15 THEN 15 ELSE IF v < 5 THEN -15 ELSE 0
      [] name = "profit_margin"    -> IF v > 10 THEN 10 ELSE IF v < 0 THEN -20 ELSE 0
      [] name = "debt_to_equity"   -> IF v < 50 THEN 10 ELSE IF v > 200 THEN -15 ELSE 0
      [] name = "current_ratio"    -> IF v > 150 THEN 5 ELSE IF v < 100 THEN -10 ELSE 0

\* an absent field, and one that is not a number, is in no band
FieldDelta(analysis, name) ==
    IF FieldOf(analysis, name).t = "num"
    THEN TableDelta(name, FieldOf(analysis, name).v) ELSE 0

\* the rules applied in the given order of the fields
RECURSIVE TableScoreFrom(_, _, _, _)
TableScoreFrom(analysis, order, i, score) ==
    IF i > Len(order) THEN score
    ELSE TableScoreFrom(analysis, order, i + 1, score + FieldDelta(analysis, order[i]))

TableScore(analysis, order) == Max2(0, Min2(100, TableScoreFrom(analysis, order, 1, 50)))

Reversed(seq) == [i \in 1..Len(seq) |-> seq[Len(seq) + 1 - i]]
Rotated(seq) == [i \in 1..Len(seq) |-> seq[(i % Len(seq)) + 1]]

\* every present field is a number other than zero (or a NaN)
PresentFieldsNonZero(analysis) ==
    \A i \in 1..Len(ScoredFieldNames) :
        \/ FieldOf(analysis, ScoredFieldNames[i]).t \in {"None", "nan"}
        \/ /\ FieldOf(analysis, ScoredFieldNames[i]).t = "num"
           /\ FieldOf(analysis, ScoredFieldNames[i]).v # 0

ScenarioC ==
    FundamentalMetrics([trailingPE |-> Num(1500), returnOnEquity |-> Num(20),
                        profitMargins |-> Num(12), debtToEquity |-> Num(30),
                        currentRatio |-> Num(200)])

\* C14: for FundamentalMetrics whose present fields are all non-zero,
\* calculate_fundamental_score equals clamp(50 + sum of the deltas of the
\* rule table, 0, 100), an absent field contributing 0 and the result not
\* depending on the order in which the rules are applied; for {pe_ratio 15,
\* roe 0.20, profit_margin 0.12, debt_to_equity 0.3, current_ratio 2.0} the
\* score is 100 and the summary is the top-tier text (score >= 70).
C14_ScoreIsRuleTable ==
    (fn = "calculate_fundamental_score" /\ result.returned
        /\ PresentFieldsNonZero(args.analysis)) =>
        /\ ~result.value.raised
        /\ result.value.value = TableScore(args.analysis, ScoredFieldNames)
        /\ result.value.value = TableScore(args.analysis, Reversed(ScoredFieldNames))
        /\ result.value.value = TableScore(args.analysis, Rotated(ScoredFieldNames))
        /\ args.analysis = ScenarioC =>
               /\ result.value.value = 100
               /\ result.summary
                      = "Strong fundamental profile with good valuation and financial health"
        /\ result.value.value >= 70 <=>
               result.summary
                   = "Strong fundamental profile with good valuation and financial health"

\* the scorer has returned 100 and the top-tier summary for scenario C, whose
\* rules add up to exactly 100
C14_Witness ==
    /\ fn = "calculate_fundamental_score" /\ result.returned
    /\ args.analysis = ScenarioC
    /\ TableScoreFrom(args.analysis, ScoredFieldNames, 1, 50) = 100
    /\ result.value = Returned(100)
    /\ result.summary = "Strong fundamental profile with good valuation and financial health"

\* ------------------------------------------------------------------------
\* The combined score in exact arithmetic, in hundredths: the inputs of the
\* calls are a confidence in tenths and whole-number scores
\* ------------------------------------------------------------------------
RECURSIVE NatOfLimbs(_, _)
NatOfLimbs(a, i) == IF i > Len(a) THEN 0 ELSE a[i] + LimbBase * NatOfLimbs(a, i + 1)

\* the whole number a float holds, and the tenths of a float of one decimal
Whole(score) == IF IsZero(score) THEN 0 ELSE NatOfLimbs(BigShr(score.m, 0 - score.e), 1)
Tenths(confidence) == Whole(FMul(confidence, F10))

SignalBase(technical_signal) ==
    IF technical_signal = "BULLISH" THEN 80 ELSE IF technical_signal = "BEARISH" THEN 20 ELSE 50

\* 100 * (0.4 * base * confidence + 0.4 * fundamental + 0.2 * (100 - risk))
ExactCombined(x) ==
    4 * SignalBase(x.technical_signal) * Tenths(x.technical_confidence)
    + 40 * Whole(x.fundamental_score) + 20 * (100 - Whole(x.risk_score))

ExactAction(combined) ==
    IF combined >= 7000 THEN "STRONG_BUY" ELSE IF combined >= 6000 THEN "BUY"
    ELSE IF combined >= 4000 THEN "HOLD" ELSE IF combined >= 3000 THEN "SELL"
    ELSE "STRONG_SELL"

ScenarioD ==
    [technical_signal |-> "NEUTRAL", technical_confidence |-> F0_5,
     fundamental_score |-> F50, risk_score |-> FromInt(85)]

\* C15: generate_stock_recommendation computes combined = 0.4 * tech_score
\* + 0.4 * fundamental_score + 0.2 * (100 - risk_score) with tech_score =
\* base * confidence and base 80 for BULLISH, 20 for BEARISH, 50 otherwise,
\* and its returned confidence is min(technical_confidence + 0.2, 1.0); for
\* risk_score 85, NEUTRAL with confidence 0.5 and fundamental_score 50 the
\* combined score is 33 and the action is SELL.
C15_CombinedScore ==
    (fn = "generate_stock_recommendation" /\ result.returned) =>
        \A i \in 1..2 :
            /\ result.value[i].action = ExactAction(ExactCombined(args[i]))
            /\ FEq(FMul(ArgCombined(i), F100), FromInt(ExactCombined(args[i])))
            /\ FEq(FMul(result.value[i].confidence, F10),
                   FromInt(Min2(Tenths(args[i].technical_confidence) + 2, 10)))
            /\ args[i] = ScenarioD =>
                   /\ FEq(ArgCombined(i), FromInt(33))
                   /\ result.value[i].action = "SELL"

\* the recommendation of scenario D has been made: combined score 33, SELL,
\* confidence 0.7
C15_Witness ==
    /\ fn = "generate_stock_recommendation" /\ result.returned
    /\ args[1] = ScenarioD
    /\ ExactCombined(args[1]) = 3300
    /\ result.value[1].action = "SELL"
    /\ FEq(result.value[1].confidence, F0_7)

\* ------------------------------------------------------------------------
\* The allocation rule, stated over the whole-number position sizes of the
\* recommendations passed in
\* ------------------------------------------------------------------------
BuyItems(recommendations) ==
    SelectSeq(recommendations, LAMBDA r : r.rec.recommendation \in BuyActions)

RECURSIVE SizeSumFrom(_, _)
SizeSumFrom(buys, i) ==
    IF i > Len(buys) THEN 0 ELSE Whole(buys[i].rec.position_size) + SizeSumFrom(buys, i + 1)
SizeSum(buys) == SizeSumFrom(buys, 1)

\* every allocation belongs to a buy recommendation, in the order of the map
AllocatedToBuys(buys, allocation) ==
    /\ Len(allocation.stock_allocations) = Len(buys)
    /\ \A i \in 1..Len(buys) : allocation.stock_allocations[i].symbol = buys[i].symbol

SizesKept(buys, allocation) ==
    /\ \A i \in 1..Len(buys) :
           FEq(allocation.stock_allocations[i].pct, buys[i].rec.position_size)
    /\ FEq(allocation.total_invested, FromInt(SizeSum(buys)))
    /\ FEq(allocation.cash_allocation, FromInt(100 - SizeSum(buys)))

\* equal sizes get equal shares and a larger size gets a larger share
RatiosKept(buys, allocation) ==
    \A i, j \in 1..Len(buys) :
        /\ FEq(buys[i].rec.position_size, buys[j].rec.position_size)
               => FEq(allocation.stock_allocations[i].pct, allocation.stock_allocations[j].pct)
        /\ FLt(buys[i].rec.position_size, buys[j].rec.position_size)
               => FLt(allocation.stock_allocations[i].pct, allocation.stock_allocations[j].pct)

SizesRescaled(buys, allocation) ==
    /\ RatiosKept(buys, allocation)
    /\ \A i \in 1..Len(buys) :
           FLt(allocation.stock_allocations[i].pct, buys[i].rec.position_size)
    /\ FEq(allocation.total_invested, F100)
    /\ FEq(allocation.cash_allocation, F0)

ScenarioE == WithSymbols(<<Rec("BUY", 20), Rec("BUY", 20), Rec("BUY", 20)>>)

AllocationRule(buys, allocation) ==
    /\ AllocatedToBuys(buys, allocation)
    /\ SizeSum(buys) <= 100 => SizesKept(buys, allocation)
    /\ SizeSum(buys) > 100 => SizesRescaled(buys, allocation)

\* C16: generate_portfolio_allocation allocates only to the symbols whose
\* action is BUY or STRONG_BUY.  When their position sizes sum to at most 100
\* every allocation is the position size and the cash is 100 - sum (three
\* BUYs of 20: invested 60, cash 40); when the sum exceeds 100 the
\* allocations are scaled down in proportion, total 100 and leave no cash.
C16_AllocationRule ==
    (fn = "generate_portfolio_allocation" /\ result.returned) =>
        /\ AllocationRule(BuyItems(args.recommendations), result.value)
        /\ args.recommendations = ScenarioE =>
               /\ FEq(result.value.total_invested, FromInt(60))
               /\ FEq(result.value.cash_allocation, FromInt(40))

\* ------------------------------------------------------------------------
\* The engine called more than once: technical_analysis_tool is one object
\* for the whole program, made by a constructor that sets no attribute, and
\* analyze_stock is a method of it.  Every call fetches its bars anew.
\* ------------------------------------------------------------------------
TechnicalAnalysisTool == EmptyDict

KeepTallies(value, bullish_signals, bearish_signals) ==
    [self  |-> [bullish_signals |-> bullish_signals, bearish_signals |-> bearish_signals],
     value |-> [value EXCEPT !.trading_signals = SignalsOf(bullish_signals, bearish_signals)]]

CarryTallies(self, value) ==
    IF IsError(value) THEN [self |-> self, value |-> value]
    ELSE IF DOMAIN self = {} THEN
        KeepTallies(value, value.trading_signals.bullish_indicators,
                    value.trading_signals.bearish_indicators)
    ELSE KeepTallies(value, self.bullish_signals + value.trading_signals.bullish_indicators,
                     self.bearish_signals + value.trading_signals.bearish_indicators)

\* an engine whose tallies live on the object and are not reset by a call
AnalyzeStockOn_KeepsTallies(self, stock_data) == CarryTallies(self, AnalyzeStock(stock_data))

\* the object after the call and the value returned: no statement of
\* analyze_stock or of the methods it calls assigns to self
AnalyzeStockOn(self, stock_data) == [self |-> self, value |-> AnalyzeStock(stock_data)]

Runs == 2
RerunLens == {20, 21}
RerunAnswers ==
    {ProviderFailure, ProviderData(<<>>, NoInfo), ProviderData(ShortHist, NoInfo)}
    \cup {ProviderData(Ramp(n, slope, v), NoInfo) :
              n \in RerunLens, slope \in {-1, 0, 1}, v \in {1000, 2000}}

\* args: what each call's fetch returned; result: the object and the values
\* the calls returned
InitRerun ==
    /\ sumImpl = "plain"
    /\ fn = "technical_analysis_tool"
    /\ args = <<>>
    /\ result = [self |-> TechnicalAnalysisTool, values |-> <<>>]
    /\ PipelineIdle

AfterCall(call) == [self |-> call.self, values |-> Append(result.values, call.value)]

RunAnalyzeStock ==
    /\ fn = "technical_analysis_tool"
    /\ Len(args) < Runs
    /\ \E answer \in RerunAnswers :
           /\ args' = Append(args, GetStockData(answer))
           /\ result' = AfterCall(AnalyzeStockOn(result.self, GetStockData(answer)))
    /\ UNCHANGED <<sumImpl, fn, pipeline>>

SpecRerun == InitRerun /\ [][RunAnalyzeStock]_vars

CountedEntries(items) == {i \in 1..Len(items) : ~IsError(items[i])}
PositiveEntries(items) == {i \in CountedEntries(items) : FGt(items[i].change_percent, F0)}

TrendByShare(positive, total) ==
    IF 10 * positive > 6 * total THEN "bullish"
    ELSE IF 10 * positive < 4 * total THEN "bearish"
    ELSE "neutral"

ExpectedTrend(items) ==
    TrendByShare(Cardinality(PositiveEntries(items)), Cardinality(CountedEntries(items)))

\* C18: given the index mapping that the data-collection stage delivered,
\* analyze_market_trends returns status "success" with market_trend bullish
\* when more than 0.6 of the entries without an error have a positive change,
\* bearish when less than 0.4 have, and neutral otherwise.
C18_MarketTrend ==
    (Analyzed /\ ~IsError(analysis_results)) =>
        /\ StatusOf(analysis_results.market_analysis) = "success"
        /\ analysis_results.market_analysis.market_trend
               = ExpectedTrend(collected_data.market_data.market_indices.items)

\* ------------------------------------------------------------------------
\* generate_signals called on indicators whose signal lists are the lists the
\* six indicator functions can build
\* ------------------------------------------------------------------------
MaSignalChoices ==
    {first \o second :
        first \in {<<>>, <<"Price above 20-day SMA (bullish)">>,
                   <<"Price below 20-day SMA (bearish)">>},
        second \in {<<>>, <<"Golden Cross: 50-day SMA above 200-day SMA (bullish)">>,
                    <<"Death Cross: 50-day SMA below 200-day SMA (bearish)">>}}
RsiSignalChoices ==
    {<<"RSI indicates overbought condition">>, <<"RSI indicates oversold condition">>,
     <<"RSI in neutral range">>}
MacdSignalChoices ==
    {first \o second :
        first \in {<<"MACD above signal line (bullish)">>, <<"MACD below signal line (bearish)">>},
        second \in {<<>>, <<"MACD histogram increasing (momentum building)">>,
                    <<"MACD histogram decreasing (momentum weakening)">>}}
BandSignalChoices ==
    {<<"Price above upper Bollinger Band (potentially overbought)">>,
     <<"Price below lower Bollinger Band (potentially oversold)">>,
     <<"Price within Bollinger Bands (normal range)">>}
LevelSignalChoices ==
    {first \o second :
        first \in {<<>>, <<"Price near resistance level">>},
        second \in {<<>>, <<"Price near support level">>}}
VolumeSignalChoices ==
    {<<>>, <<"Low volume activity">>,
     <<"High volume activity", "High volume with price increase (bullish)">>,
     <<"High volume activity", "High volume with price decrease (bearish)">>}

\* the signal texts of the indicators, in the order of the indicators dict
SignalTexts(indicators) ==
    indicators.moving_averages.signals \o indicators.rsi.signals \o indicators.macd.signals
    \o indicators.bollinger_bands.signals \o indicators.support_resistance.signals
    \o indicators.volume_analysis.signals

InitSignals ==
    /\ sumImpl = "plain"
    /\ fn = "generate_signals"
    /\ \E ma \in MaSignalChoices : \E rsi \in RsiSignalChoices : \E macd \in MacdSignalChoices :
       \E bb \in BandSignalChoices : \E sr \in LevelSignalChoices :
       \E vol \in VolumeSignalChoices :
           args = [indicators |->
                       [moving_averages |-> [signals |-> ma], rsi |-> [signals |-> rsi],
                        macd |-> [signals |-> macd], bollinger_bands |-> [signals |-> bb],
                        support_resistance |-> [signals |-> sr],
                        volume_analysis |-> [signals |-> vol]]]
    /\ result = NoResult
    /\ PipelineIdle

CallSignals ==
    /\ fn = "generate_signals"
    /\ result = NoResult
    /\ result' = [returned |-> TRUE, value |-> GenerateSignals(SignalTexts(args.indicators))]
    /\ UNCHANGED <<sumImpl, fn, args, pipeline>>

SpecSignals == InitSignals /\ [][CallSignals]_vars

\* the words of the two keyword lists that each signal text contains
BullishWords == {"bullish", "above", "increasing", "oversold"}
BearishWords == {"bearish", "below", "decreasing", "overbought"}
KeywordsIn(signal) ==
    CASE signal = "Price above 20-day SMA (bullish)" -> {"above", "bullish"}
      [] signal = "Price below 20-day SMA (bearish)" -> {"below", "bearish"}
      [] signal = "Golden Cross: 50-day SMA above 200-day SMA (bullish)" -> {"above", "bullish"}
      [] signal = "Death Cross: 50-day SMA below 200-day SMA (bearish)" -> {"below", "bearish"}
      [] signal = "RSI indicates overbought condition" -> {"overbought"}
      [] signal = "RSI indicates oversold condition" -> {"oversold"}
      [] signal = "MACD above signal line (bullish)" -> {"above", "bullish"}
      [] signal = "MACD below signal line (bearish)" -> {"below", "bearish"}
      [] signal = "MACD histogram increasing (momentum building)" -> {"increasing"}
      [] signal = "MACD histogram decreasing (momentum weakening)" -> {"decreasing"}
      [] signal = "Price above upper Bollinger Band (potentially overbought)"
             -> {"above", "overbought"}
      [] signal = "Price below lower Bollinger Band (potentially oversold)"
             -> {"below", "oversold"}
      [] signal = "High volume with price increase (bullish)" -> {"bullish"}
      [] signal = "High volume with price decrease (bearish)" -> {"bearish"}
      [] OTHER -> {}

WithWordOf(signals, words) ==
    Cardinality({i \in 1..Len(signals) : KeywordsIn(signals[i]) \cap words # {}})

\* every text with a keyword is counted once, in a tally whose word it has
TalliedOnce(signals, bullish, bearish) ==
    /\ bullish <= WithWordOf(signals, BullishWords)
    /\ bearish <= WithWordOf(signals, BearishWords)
    /\ bullish + bearish = WithWordOf(signals, BullishWords \cup BearishWords)

LabelFor(strong, plain, winning, counted) ==
    IF 10 * winning > 7 * counted THEN strong
    ELSE IF 10 * winning > 6 * counted THEN plain
    ELSE "HOLD"

SignalRule(value, bullish, bearish) ==
    IF bullish = bearish
    THEN /\ value.overall_signal = "NEUTRAL"
         /\ FEq(value.confidence, F0_5)
         /\ value.recommendation = "HOLD"
    ELSE IF bullish > bearish
    THEN /\ value.overall_signal = "BULLISH"
         /\ FEq(value.confidence, FDiv(FromInt(bullish), FromInt(bullish + bearish)))
         /\ value.recommendation = LabelFor("STRONG BUY", "BUY", bullish, bullish + bearish)
    ELSE /\ value.overall_signal = "BEARISH"
         /\ FEq(value.confidence, FDiv(FromInt(bearish), FromInt(bullish + bearish)))
         /\ value.recommendation = LabelFor("STRONG SELL", "SELL", bearish, bullish + bearish)

\* C19: generate_signals counts every signal text in at most one tally, by
\* the words of the bullish list and of the bearish list it contains; equal
\* tallies give NEUTRAL with confidence 0.5 and HOLD, otherwise the larger
\* tally names the signal, the confidence is that tally over the sum of both,
\* and the label is the STRONG one above 0.7, the plain one above 0.6 and
\* HOLD otherwise.
C19_SignalTallies ==
    (fn = "generate_signals" /\ result.returned) =>
        /\ TalliedOnce(SignalTexts(args.indicators), result.value.bullish_indicators,
                       result.value.bearish_indicators)
        /\ SignalRule(result.value, result.value.bullish_indicators,
                      result.value.bearish_indicators)

\* signals were generated from texts of which one holds a word of each list
\* and one holds none, and three of the five counted were bullish: BULLISH
\* with confidence 0.6, which is not above 0.6, so HOLD
C19_Witness ==
    /\ fn = "generate_signals" /\ result.returned
    /\ args.indicators.bollinger_bands.signals
           = <<"Price above upper Bollinger Band (potentially overbought)">>
    /\ args.indicators.rsi.signals = <<"RSI in neutral range">>
    /\ result.value.bullish_indicators = 3
    /\ result.value.bearish_indicators = 2
    /\ result.value.overall_signal = "BULLISH"
    /\ result.value.recommendation = "HOLD"

\* ------------------------------------------------------------------------
\* The order of the stages of an analyze_stocks request
\* ------------------------------------------------------------------------
DirectRun == request # NoArgs /\ request.method = "analyze_stocks"

RecommendationNames == ActionNames \cup {"INSUFFICIENT_DATA"}

AllocationIn(risk) == GetDict(GetDict(risk, "recommendations"), "portfolio_allocation")

\* one recommendation entry for every requested symbol and for no other, and
\* an allocation only for symbols whose entry is a buy
EveryEntry(symbols, recommendations, allocation) ==
    /\ DOMAIN recommendations = Range(symbols)
    /\ \A s \in Range(symbols) : recommendations[s].recommendation \in RecommendationNames
    /\ \A i \in 1..Len(allocation.stock_allocations) :
           /\ allocation.stock_allocations[i].symbol \in Range(symbols)
           /\ recommendations[allocation.stock_allocations[i].symbol].recommendation
                  \in BuyActions

Reported == final_results # NoResult /\ StatusOf(final_results) = "success"

\* what exists of a request shows that the earlier stages have returned
StageOrder ==
    /\ request = NoArgs =>
           /\ collected_data = NoResult /\ analysis_results = NoResult
           /\ risk_results = NoResult /\ final_results = NoResult
    /\ DirectRun =>
           /\ collected_data # NoResult
           /\ analysis_results # NoResult => ~IsError(collected_data)
           /\ risk_results # NoResult =>
                  (analysis_results # NoResult /\ ~IsError(analysis_results))
           /\ Reported =>
                  /\ pc = "done"
                  /\ risk_results # NoResult /\ ~IsError(risk_results)
                  /\ Has(final_results, "executive_summary")
           /\ (risk_results # NoResult /\ ~IsError(risk_results)) =>
                  EveryEntry(request.symbols, RecommendationsIn(risk_results),
                             AllocationIn(risk_results))

\* a step of a request runs one stage, the next one, on what the stages
\* before it returned
StageStep ==
    (request' # NoArgs /\ request'.method = "analyze_stocks") =>
        /\ collected_data' # collected_data =>
               /\ pc = "start" /\ collected_data = NoResult
               /\ analysis_results' = NoResult /\ risk_results' = NoResult
        /\ analysis_results' # analysis_results =>
               /\ pc = "analysis" /\ analysis_results = NoResult
               /\ collected_data # NoResult /\ collected_data' = collected_data
               /\ risk_results' = NoResult
        /\ risk_results' # risk_results =>
               /\ pc = "risk" /\ risk_results = NoResult
               /\ analysis_results # NoResult
               /\ collected_data' = collected_data /\ analysis_results' = analysis_results
        /\ final_results' # final_results => pc' = "done"

\* C20: in analyze_direct the stages run in the order data collection,
\* analysis, risk assessment, executive summary, each on what the one before
\* returned; the summary and the portfolio allocation exist only when every
\* requested symbol has its recommendation entry, a numeric action or
\* INSUFFICIENT_DATA, and the report holds one entry for each requested
\* symbol and for no other.
C20_StagesInOrder == []StageOrder /\ [][StageStep]_vars

\* a request for two symbols is reported: one got a numeric action, the other
\* INSUFFICIENT_DATA, after all three stages had returned
C20_Witness ==
    /\ DirectRun /\ pc = "done" /\ Reported
    /\ request.symbols = <<"A", "B">>
    /\ collected_data # NoResult /\ analysis_results # NoResult /\ risk_results # NoResult
    /\ DOMAIN RecommendationsIn(risk_results) = {"A", "B"}
    /\ RecommendationsIn(risk_results)["A"].recommendation \in ActionNames
    /\ RecommendationsIn(risk_results)["B"].recommendation = "INSUFFICIENT_DATA"
    /\ final_results.executive_summary.analysis_overview.symbols_analyzed = 2

\* a field that is present with the value 0
ZeroFields(analysis) ==
    {i \in 1..Len(ScoredFieldNames) : FieldOf(analysis, ScoredFieldNames[i]) = Num(0)}

\* C21: calculate_fundamental_score treats a field that is present with the
\* value 0 as present: its rules apply to it as to any number (debt/equity 0
\* adds 10, ROE 0 subtracts 15, current ratio 0 subtracts 10, P/E 0 subtracts
\* 10), and only a missing field leaves its rules unapplied.
C21_ZeroIsPresent ==
    (fn = "calculate_fundamental_score" /\ result.returned
        /\ ZeroFields(args.analysis) # {}) =>
        /\ ~result.value.raised
        /\ result.value.value = TableScore(args.analysis, ScoredFieldNames)

\* ------------------------------------------------------------------------
\* _generate_fallback_risk_metrics called on one or two symbols whose
\* technical data is missing, an error, without a trading signal, or has a
\* signal with a confidence on either side of and on the two thresholds; and
\* classify_risk_level called on scores around its three thresholds
\* ------------------------------------------------------------------------
ConfidenceHundredths == {20, 30, 50, 70, 75, 100}
ConfidenceAt == [h \in ConfidenceHundredths |-> FLit(h, 2)]
ScoreTenths == {0, 295, 299, 300, 350, 500, 599, 600, 650, 750, 799, 800, 1000}
ScoreAt == [t \in ScoreTenths |-> FLit(t, 1)]

SignalledTech(signal, confidence) ==
    [current_price |-> F100,
     trading_signals |-> [overall_signal |-> signal, confidence |-> confidence]]
FallbackTechChoices ==
    {[missing |-> TRUE], [error |-> "Technical analysis failed"], [current_price |-> F100]}
    \cup {SignalledTech(signal, ConfidenceAt[h]) : signal \in Signals, h \in ConfidenceHundredths}

InitFallback ==
    /\ sumImpl = "plain"
    /\ \/ /\ fn = "_generate_fallback_risk_metrics"
          /\ \E symbols \in {<<"A">>, <<"A", "B">>} :
             \E t \in [Range(symbols) -> FallbackTechChoices] :
                 args = [symbols |-> symbols,
                         technical_analysis |->
                             [s \in {x \in Range(symbols) : ~Has(t[x], "missing")} |-> t[s]]]
       \/ /\ fn = "classify_risk_level"
          /\ \E t \in ScoreTenths : args = [risk_score |-> ScoreAt[t]]
    /\ result = NoResult
    /\ PipelineIdle

CallFallback ==
    /\ fn = "_generate_fallback_risk_metrics"
    /\ result = NoResult
    /\ result' = [returned |-> TRUE,
                  value |-> GenerateFallbackRiskMetrics(args.symbols, args.technical_analysis)]
    /\ UNCHANGED <<sumImpl, fn, args, pipeline>>

CallClassify ==
    /\ fn = "classify_risk_level"
    /\ result = NoResult
    /\ result' = [returned |-> TRUE, value |-> ClassifyRiskLevel(args.risk_score)]
    /\ UNCHANGED <<sumImpl, fn, args, pipeline>>

NextFallback == CallFallback \/ CallClassify

SpecFallback == InitFallback /\ [][NextFallback]_vars

\* the hundredths of a confidence and the tenths of a score drawn above
HundredthsOf(confidence) == CHOOSE h \in ConfidenceHundredths : ConfidenceAt[h] = confidence
TenthsOf(risk_score) == CHOOSE t \in ScoreTenths : ScoreAt[t] = risk_score

EstimateFor(signal, hundredths) ==
    IF signal = "BULLISH" /\ hundredths > 70 THEN 35
    ELSE IF signal = "BEARISH" /\ hundredths > 70 THEN 75
    ELSE IF hundredths < 30 THEN 65
    ELSE 50

LevelForTenths(tenths) ==
    IF tenths < 300 THEN "LOW"
    ELSE IF tenths < 600 THEN "MODERATE"
    ELSE IF tenths < 800 THEN "HIGH"
    ELSE "VERY_HIGH"

HasSignal(technical_analysis, s) ==
    /\ Has(technical_analysis, s)
    /\ Has(technical_analysis[s], "trading_signals")

EstimatedAsStated(tech_data, risk_data) ==
    /\ ~IsError(risk_data)
    /\ risk_data.risk_score
           = FromInt(EstimateFor(tech_data.trading_signals.overall_signal,
                                 HundredthsOf(tech_data.trading_signals.confidence)))
    /\ ClassifyRiskLevel(risk_data.risk_score)
           = LevelForTenths(10 * EstimateFor(tech_data.trading_signals.overall_signal,
                                             HundredthsOf(tech_data.trading_signals.confidence)))

\* C22: for every symbol with a trading signal the fallback estimator sets
\* risk_score to 35 for BULLISH with confidence above 0.7, to 75 for BEARISH
\* with confidence above 0.7, otherwise to 65 for a confidence below 0.3 and
\* otherwise to 50; a symbol whose technical data is an error gets an error
\* record and no score; a score is LOW below 30, MODERATE below 60, HIGH
\* below 80 and VERY_HIGH from 80 on.
C22_FallbackEstimate ==
    /\ (fn = "_generate_fallback_risk_metrics" /\ result.returned) =>
           /\ StatusOf(result.value) = "success"
           /\ DOMAIN result.value.risk_metrics = Range(args.symbols)
           /\ \A s \in Range(args.symbols) :
                  /\ HasSignal(args.technical_analysis, s) =>
                         EstimatedAsStated(args.technical_analysis[s],
                                           result.value.risk_metrics[s])
                  /\ (Has(args.technical_analysis, s) /\ IsError(args.technical_analysis[s])) =>
                         /\ IsError(result.value.risk_metrics[s])
                         /\ ~Has(result.value.risk_metrics[s], "risk_score")
    /\ (fn = "classify_risk_level" /\ result.returned) =>
           result.value = LevelForTenths(TenthsOf(args.risk_score))

\* the estimator has scored a strong bullish symbol 35 and given an error
\* record to a symbol whose technical data is an error
C22_Witness ==
    /\ fn = "_generate_fallback_risk_metrics" /\ result.returned
    /\ args.symbols = <<"A", "B">>
    /\ DOMAIN args.technical_analysis = {"A", "B"}
    /\ args.technical_analysis["A"] = SignalledTech("BULLISH", ConfidenceAt[75])
    /\ IsError(args.technical_analysis["B"])
    /\ FEq(result.value.risk_metrics["A"].risk_score, F35)
    /\ IsError(result.value.risk_metrics["B"])

\* ------------------------------------------------------------------------
\* calculate_position_size called twice, on risk scores and confidences
\* inside and outside of the ranges the agents produce
\* ------------------------------------------------------------------------
SizeRisks == {-50, 0, 35, 50, 80, 85, 100, 150}
SizeConfidenceHundredths == {-100, 0, 5, 50, 75, 100, 300}
SizeRiskAt == [r \in SizeRisks |-> FromInt(r)]
SizeConfidenceAt == [h \in SizeConfidenceHundredths |-> FLit(h, 2)]
SizeInputs ==
    {[risk_score |-> SizeRiskAt[r], confidence |-> SizeConfidenceAt[h]] :
        r \in SizeRisks, h \in SizeConfidenceHundredths}

InitSize ==
    /\ sumImpl = "plain"
    /\ fn = "calculate_position_size"
    /\ \E x \in SizeInputs, y \in SizeInputs : args = <<x, y>>
    /\ result = NoResult
    /\ PipelineIdle

CallSize ==
    /\ fn = "calculate_position_size"
    /\ result = NoResult
    /\ result' = [returned |-> TRUE,
                  value |-> [i \in 1..2 |->
                      CalculatePositionSize(args[i].risk_score, args[i].confidence)]]
    /\ UNCHANGED <<sumImpl, fn, args, pipeline>>

SpecSize == InitSize /\ [][CallSize]_vars

\* the whole risk score and the hundredths of the confidence of an input
RiskOfInput(x) == CHOOSE r \in SizeRisks : SizeRiskAt[r] = x.risk_score
HundredthsOfInput(x) == CHOOSE h \in SizeConfidenceHundredths : SizeConfidenceAt[h] = x.confidence

\* clamp(10 * max(0.2, (100 - risk_score) / 100) * confidence, 1, 25) in
\* thousandths, computed in whole numbers
ExactSizeOf(risk, hundredths) ==
    Min2(Max2(Max2(20, 100 - risk) * hundredths, 1000), 25000)
ExactSize(x) == ExactSizeOf(RiskOfInput(x), HundredthsOfInput(x))

\* the rounding error allowed between a float and a number in thousandths
SizeTolerance == FLit(1, 9)
NearThousandths(size, thousandths) ==
    FLe(FAbs(FSub(size, FDiv(FromInt(thousandths), FromInt(1000)))), SizeTolerance)

\* C23: for finite numbers calculate_position_size returns clamp(10 *
\* max(0.2, (100 - risk_score) / 100) * confidence, 1, 25): the result lies
\* in [1, 25], it does not increase when the risk score increases and it
\* does not decrease when the confidence increases.
C23_PositionSize ==
    (fn = "calculate_position_size" /\ result.returned) =>
        /\ \A i \in 1..2 :
               /\ FGe(result.value[i], F1) /\ FLe(result.value[i], F25)
               /\ NearThousandths(result.value[i], ExactSize(args[i]))
        /\ (args[1].confidence = args[2].confidence
                /\ FLe(args[1].risk_score, args[2].risk_score))
               => FGe(result.value[1], result.value[2])
        /\ (args[1].risk_score = args[2].risk_score
                /\ FLe(args[1].confidence, args[2].confidence))
               => FLe(result.value[1], result.value[2])

\* two sizes were computed for the same confidence: 4.875 at risk score 35
\* and the floor multiplier's 1.5 at risk score 85
C23_Witness ==
    /\ fn = "calculate_position_size" /\ result.returned
    /\ args[1] = [risk_score |-> SizeRiskAt[35], confidence |-> SizeConfidenceAt[75]]
    /\ args[2] = [risk_score |-> SizeRiskAt[85], confidence |-> SizeConfidenceAt[75]]
    /\ ExactSize(args[1]) = 4875 /\ ExactSize(args[2]) = 1500
    /\ FGt(result.value[1], result.value[2])
    /\ FGt(result.value[2], F1)

\* ------------------------------------------------------------------------
\* calculate_price_targets called without a price and on prices from one
\* cent up, for every signal and for whole risk scores from 0 to 100
\* ------------------------------------------------------------------------
PriceHundredths == {1, 5, 9, 10, 100, 10000, 10100, 25050}
TargetRisks == {0, 35, 50, 65, 75, 100}
PriceAt == [h \in PriceHundredths |-> FLit(h, 2)]
TargetRiskAt == [r \in TargetRisks |-> FromInt(r)]

InitTargets ==
    /\ sumImpl = "plain"
    /\ fn = "calculate_price_targets"
    /\ \E current_price \in {PyNone} \cup {PriceAt[h] : h \in PriceHundredths} :
       \E signal \in Signals : \E r \in TargetRisks :
           args = [current_price |-> current_price, signal |-> signal,
                   risk_score |-> TargetRiskAt[r]]
    /\ result = NoResult
    /\ PipelineIdle

CallTargets ==
    /\ fn = "calculate_price_targets"
    /\ result = NoResult
    /\ result' = [returned |-> TRUE,
                  value |-> CalculatePriceTargets(args.current_price, args.signal,
                                                  args.risk_score)]
    /\ UNCHANGED <<sumImpl, fn, args, pipeline>>

SpecTargets == InitTargets /\ [][CallTargets]_vars

PriceOfArgs == CHOOSE h \in PriceHundredths : PriceAt[h] = args.current_price
RiskOfArgs == CHOOSE r \in TargetRisks : TargetRiskAt[r] = args.risk_score

\* price * (1 - (0.05 + 0.15 * risk / 100)) and price * (1 + target_pct) in
\* millionths, for a price in hundredths and a whole risk score
ExactStopLoss(price, risk) == price * (9500 - 15 * risk)
ExactTarget(price, signal, risk) ==
    IF signal = "BULLISH" THEN price * (13000 - 15 * risk)
    ELSE IF signal = "BEARISH" THEN price * 9000
    ELSE price * 10500

NearMillionths(x, millionths) ==
    FLe(FAbs(FSub(x, FDiv(FromInt(millionths), FromInt(1000000)))), SizeTolerance)

\* C24: calculate_price_targets returns (None, None) when it is given no
\* price; for a positive price it returns stop_loss = price * (1 - (0.05 +
\* 0.15 * risk_score / 100)) and target = price * (1 + target_pct), target_pct
\* being 0.15 + 0.15 * (1 - risk_score / 100) for BULLISH, -0.10 for BEARISH
\* and 0.05 otherwise, so that for a risk score in [0, 100] the stop-loss is
\* strictly below the price and the target is above the price unless the
\* signal is BEARISH.
C24_PriceTargets ==
    (fn = "calculate_price_targets" /\ result.returned) =>
        IF args.current_price = PyNone
        THEN result.value.stop_loss = PyNone /\ result.value.target_price = PyNone
        ELSE /\ NearMillionths(result.value.stop_loss, ExactStopLoss(PriceOfArgs, RiskOfArgs))
             /\ NearMillionths(result.value.target_price,
                               ExactTarget(PriceOfArgs, args.signal, RiskOfArgs))
             /\ FLt(result.value.stop_loss, args.current_price)
             /\ args.signal # "BEARISH" => FGt(result.value.target_price, args.current_price)
             /\ args.signal = "BEARISH" => FLt(result.value.target_price, args.current_price)

\* ------------------------------------------------------------------------
\* The risk stage of an analyze_stocks request
\* ------------------------------------------------------------------------
\* the close series execute_risk_assessment hands on for the symbols whose
\* technical data is no error
HandedCloses(stock_data) ==
    {stock_data[s].historical_data.Close :
        s \in {x \in DOMAIN stock_data : ~IsError(stock_data[x])}}

EstimatedScores == {F35, F50, F65, F75}

\* C25: in every run of execute_risk_assessment the close series handed to
\* the risk stage is empty for every symbol, so the fallback estimator makes
\* the risk metrics and calculate_risk_metrics is not called; every risk
\* score of a pipeline report that is no error is 35, 50, 65 or 75.
C25_AlwaysFallback ==
    (DirectRun /\ risk_results # NoResult) =>
        /\ \A closes \in HandedCloses(RiskStockData(request.symbols,
                                                    TechnicalOf(analysis_results))) :
               Len(closes) = 0
        /\ risk_path = "fallback"
        /\ risk_results.risk_metrics
               = GenerateFallbackRiskMetrics(request.symbols, TechnicalOf(analysis_results))
        /\ \A rec \in RiskRecords : rec.risk_score \in EstimatedScores

\* a request for two symbols has been assessed: the data stage had collected
\* a price history for both, and their risk scores are the estimates 35 and
\* 75
C25_Witness ==
    /\ DirectRun /\ risk_results # NoResult /\ risk_path = "fallback"
    /\ request.symbols = <<"A", "B">>
    /\ \A s \in {"A", "B"} :
           /\ ~IsError(collected_data.stock_data.stocks[s])
           /\ Len(collected_data.stock_data.stocks[s].historical_data.Close) > 0
           /\ ~IsError(RiskMetricsOf(risk_results)[s])
    /\ RiskMetricsOf(risk_results)["A"].risk_score = F35
    /\ RiskMetricsOf(risk_results)["B"].risk_score = F75

\* ------------------------------------------------------------------------
\* The confidence of a trading signal of generate_signals
\* ------------------------------------------------------------------------
\* the risk record the fallback estimator makes of a technical result with
\* these trading signals
EstimatedFrom(trading_signals) ==
    GenerateFallbackRiskMetrics(<<"A">>,
        [A |-> [current_price |-> F100, trading_signals |-> trading_signals]]).risk_metrics["A"]

ConfidenceInRange(value) ==
    /\ FGe(value.confidence, F0_5) /\ FLe(value.confidence, F1)
    /\ value.overall_signal = "NEUTRAL" <=> FEq(value.confidence, F0_5)
    /\ value.overall_signal \in {"BULLISH", "BEARISH"} <=> FGt(value.confidence, F0_5)
    /\ value.bullish_indicators >= 0 /\ value.bearish_indicators >= 0
    /\ value.overall_signal # "NEUTRAL"
           <=> value.bullish_indicators # value.bearish_indicators

\* C26: every trading signal of generate_signals has a confidence from 0.5
\* to 1, 0.5 exactly when it is NEUTRAL and above 0.5 when it is BULLISH or
\* BEARISH; its two tallies are not negative and differ exactly when it is
\* not NEUTRAL; so the fallback estimator never takes its branch for a
\* confidence below 0.3, the one of risk score 65, for such a signal.
C26_SignalConfidence ==
    (fn = "generate_signals" /\ result # NoResult) =>
        /\ result.returned
        /\ ConfidenceInRange(result.value)
        /\ ~FLt(result.value.confidence, F0_3)
        /\ EstimatedFrom(result.value).risk_score # F65

\* four of the six counted texts were bearish: BEARISH, confidence 4/6,
\* which is below 0.7, and the fallback estimator gives 50
C26_Witness ==
    /\ fn = "generate_signals" /\ result # NoResult /\ result.returned
    /\ result.value.bullish_indicators = 2
    /\ result.value.bearish_indicators = 4
    /\ result.value.overall_signal = "BEARISH"
    /\ FGt(result.value.confidence, F0_5) /\ FLt(result.value.confidence, F0_7)
    /\ EstimatedFrom(result.value).risk_score = F50

\* ------------------------------------------------------------------------
\* The action of generate_stock_recommendation as the technical confidence
\* grows
\* ------------------------------------------------------------------------
\* the two calls differ in the technical confidence alone, the second one
\* having the higher confidence
ConfidenceRaised(signal) ==
    /\ args[1].technical_signal = signal /\ args[2].technical_signal = signal
    /\ args[1].fundamental_score = args[2].fundamental_score
    /\ args[1].risk_score = args[2].risk_score
    /\ FLt(args[1].technical_confidence, args[2].technical_confidence)

\* C27: with the signal BEARISH and the fundamental score and the risk score
\* fixed, a higher technical confidence never gives a more bullish action;
\* with the signal BULLISH, a higher confidence never gives a less bullish
\* action.
C27_ConfidenceDirection ==
    (fn = "generate_stock_recommendation" /\ result.returned) =>
        /\ ConfidenceRaised("BEARISH")
               => ActionRank(result.value[2].action) <= ActionRank(result.value[1].action)
        /\ ConfidenceRaised("BULLISH")
               => ActionRank(result.value[2].action) >= ActionRank(result.value[1].action)


\* ------------------------------------------------------------------------
\* The status of the report of an analyze_stocks request
\* ------------------------------------------------------------------------
\* the stages inside the three results that reported a failure of their own
FailedInside ==
    {stage \in {"stock_data", "market_data", "news_sentiment"} :
        StatusOf(GetDict(collected_data, stage)) = "failed"}
    \cup {stage \in {"technical_analysis", "fundamental_analysis", "market_analysis",
                     "sentiment_analysis"} :
             StatusOf(GetDict(analysis_results, stage)) = "failed"}
    \cup {stage \in {"risk_metrics", "portfolio_risk", "recommendations"} :
             StatusOf(GetDict(risk_results, stage)) = "failed"}

\* C28: no result of execute_data_collection, execute_comprehensive_analysis
\* or execute_risk_assessment has an "error" key of its own, so analyze_direct
\* takes none of its three early returns and its report has status
\* "success", also when stages inside the results reported "failed"; what
\* analyze_stocks returns has status "success" or "failed".
C28_ReportSucceeds ==
    DirectRun =>
        /\ ~IsError(collected_data) /\ ~IsError(analysis_results) /\ ~IsError(risk_results)
        /\ pc # "done" => final_results = NoResult
        /\ pc = "done" =>
               /\ collected_data # NoResult /\ analysis_results # NoResult
               /\ risk_results # NoResult
               /\ final_results.status \in {"success", "failed"}
               /\ final_results.status = "success"
               /\ ~IsError(final_results)

\* a report with status "success" of a request whose market stage and whose
\* fundamental stage both reported "failed" inside the analysis results
C28_Witness ==
    /\ DirectRun /\ pc = "done"
    /\ final_results.status = "success"
    /\ {"market_analysis", "fundamental_analysis"} \subseteq FailedInside

\* ------------------------------------------------------------------------
\* analyze_market_trends called on market data whose index entries are
\* missing, a dict by index name or a list of up to MaxIndices entries
\* ------------------------------------------------------------------------
MaxIndices == 3
IndexEntries ==
    {[error |-> "No data available"]}
    \cup {[name |-> "S&P 500", change_percent |-> c] : c \in {F1, F0, FNeg(F1)}}
IndexLists == UNION {[1..n -> IndexEntries] : n \in 0..MaxIndices}
SectorLists ==
    {<<>>, <<[sector |-> "Technology", price_change_percent |-> F2]>>,
     <<[sector |-> "Technology", price_change_percent |-> FLit(25, 1)],
       [sector |-> "Energy", price_change_percent |-> FNeg(F2)]>>}
MarketInputs ==
    {[sector_performance |-> sectors] : sectors \in SectorLists}
    \cup {[market_indices |-> [shape |-> "list", items |-> items],
           sector_performance |-> sectors] : items \in IndexLists, sectors \in SectorLists}
    \cup {[market_indices |-> [shape |-> "dict", items |-> items],
           sector_performance |-> sectors] :
             items \in {<<>>, <<[name |-> "S&P 500", change_percent |-> F1]>>},
             sectors \in SectorLists}

InitMarket ==
    /\ sumImpl = "plain"
    /\ fn = "analyze_market_trends"
    /\ \E market_data \in MarketInputs : args = [market_data |-> market_data]
    /\ result = NoResult
    /\ PipelineIdle

CallMarket ==
    /\ fn = "analyze_market_trends"
    /\ result = NoResult
    /\ result' = [returned |-> TRUE, value |-> AnalyzeMarketTrends(args.market_data)]
    /\ UNCHANGED <<sumImpl, fn, args, pipeline>>

SpecMarket == InitMarket /\ [][CallMarket]_vars

\* market_indices is missing or empty, or each of its entries is an error
NoUsableIndex(market_data) ==
    \/ ~Has(market_data, "market_indices")
    \/ CountedEntries(market_data.market_indices.items) = {}

\* C29: analyze_market_trends returns status "success" with a market_trend
\* and a market_sentiment also when there is no usable index entry
\* (market_indices empty or missing, or every entry an error): the
\* market_trend is then "neutral" and the sector trends are still reported.
C29_NoIndexIsNeutral ==
    (fn = "analyze_market_trends" /\ result.returned /\ NoUsableIndex(args.market_data)) =>
        /\ StatusOf(result.value) = "success"
        /\ Has(result.value, "market_trend") /\ Has(result.value, "market_sentiment")
        /\ result.value.market_trend = "neutral"
        /\ Has(result.value, "sector_trends")
        /\ Len(result.value.sector_trends) = Len(args.market_data.sector_performance)

\* ------------------------------------------------------------------------
\* generate_investment_recommendations called on the results of up to
\* MaxSymbols symbols, with risk scores from 0 to 100 and technical
\* confidences from 0 to 1
\* ------------------------------------------------------------------------
MaxSymbols == 12
SymbolNames == <<"A", "B", "C", "D", "E", "F", "G", "H", "I", "J", "K", "L", "M", "N">>
SymbolCounts == {1, 10, 11, MaxSymbols}

\* what the three stages hold for one symbol
Profile(signal, hundredths, fundamental_score, risk_score) ==
    [tech_data |-> SignalledTech(signal, FLit(hundredths, 2)),
     fund_data |-> [fundamental_score |-> fundamental_score],
     risk_data |-> [risk_score |-> FromInt(risk_score)]]
Profiles ==
    {Profile("BULLISH", 100, 100, 0), Profile("BULLISH", 75, 100, 0),
     Profile("BULLISH", 100, 70, 35), Profile("NEUTRAL", 50, 100, 35),
     Profile("NEUTRAL", 0, 100, 0), Profile("BEARISH", 100, 0, 100),
     [tech_data |-> [error |-> "Technical analysis failed"],
      fund_data |-> [fundamental_score |-> 50],
      risk_data |-> [error |-> "No technical data available"]]}

\* the first m of the n symbols have the profile a, the others the profile b
ProfileOf(n, m, a, b) ==
    [s \in Range(SubSeq(SymbolNames, 1, n)) |->
        IF \E i \in 1..m : SymbolNames[i] = s THEN a ELSE b]
RecommendInputs(n, by) ==
    [analysis_results |->
         [symbols |-> SubSeq(SymbolNames, 1, n),
          technical_analysis |->
              [technical_analysis |-> [s \in DOMAIN by |-> by[s].tech_data],
               status |-> "success"],
          fundamental_analysis |->
              [fundamental_analysis |-> [s \in DOMAIN by |-> by[s].fund_data],
               status |-> "success"]],
     risk_assessment |->
         [risk_metrics |-> [s \in DOMAIN by |-> by[s].risk_data], status |-> "success"]]

InitRecommend ==
    /\ sumImpl \in SumImpls
    /\ fn = "generate_investment_recommendations"
    /\ \E n \in SymbolCounts : \E m \in {0, n - 1, n} : \E a, b \in Profiles :
           args = RecommendInputs(n, ProfileOf(n, m, a, b))
    /\ result = NoResult
    /\ PipelineIdle

CallRecommend ==
    /\ fn = "generate_investment_recommendations"
    /\ result = NoResult
    /\ result' = [returned |-> TRUE,
                  value |-> GenerateInvestmentRecommendations(
                                args.analysis_results, args.risk_assessment, sumImpl)]
    /\ UNCHANGED <<sumImpl, fn, args, pipeline>>

SpecRecommend == InitRecommend /\ [][CallRecommend]_vars

\* the symbols that got a numeric action, and those of them to buy
Sized(recommendations) ==
    {s \in DOMAIN recommendations : Has(recommendations[s], "position_size")}
Bought(recommendations) ==
    {s \in Sized(recommendations) : recommendations[s].recommendation \in BuyActions}

\* an allocation differs from the position size it was made of
Rescaled(recommendations, allocation) ==
    \E i \in 1..Len(allocation.stock_allocations) :
        allocation.stock_allocations[i].pct
            # recommendations[allocation.stock_allocations[i].symbol].position_size

\* C30: with a risk score from 0 to 100 and a confidence from 0 to 1,
\* calculate_position_size returns no more than 10, so the upper clamp of 25
\* never decides the size; the buy allocations of
\* generate_portfolio_allocation then sum to more than 100, and are rescaled,
\* only when 11 or more symbols are BUY or STRONG_BUY.
C30_TenPerSymbol ==
    (fn = "generate_investment_recommendations" /\ result.returned) =>
        LET recommendations == result.value.individual_recommendations
            allocation == result.value.portfolio_allocation
        IN  /\ \A s \in Sized(recommendations) :
                   /\ FLe(recommendations[s].position_size, F10)
                   /\ FGe(recommendations[s].position_size, F1)
            /\ Len(allocation.stock_allocations) = Cardinality(Bought(recommendations))
            /\ Cardinality(Bought(recommendations)) < 11 =>
                   /\ ~Rescaled(recommendations, allocation)
                   /\ FLe(allocation.total_invested,
                          FromInt(10 * Cardinality(Bought(recommendations))))
            /\ Rescaled(recommendations, allocation)
                   => Cardinality(Bought(recommendations)) >= 11

\* eleven symbols to buy with the position size 10 each: the sizes sum to
\* 110 and every allocation is scaled down
C30_Witness ==
    /\ fn = "generate_investment_recommendations" /\ result.returned
    /\ Cardinality(Bought(result.value.individual_recommendations)) = 11
    /\ \A s \in Bought(result.value.individual_recommendations) :
           FEq(result.value.individual_recommendations[s].position_size, F10)
    /\ Rescaled(result.value.individual_recommendations, result.value.portfolio_allocation)
    /\ \A i \in 1..11 :
           FLt(result.value.portfolio_allocation.stock_allocations[i].pct, F10)
====
